---- MODULE Spec2Model ----
(***************************************************************************)
(* Model of the CAN driver layer of CANopenNode (neuberger port):          *)
(*   - the socketCAN fault-recovery state machine (CO_error.c, 62..319),   *)
(*   - the receive/transmit dispatch layer (CO_driver.c, 384..704 of the   *)
(*     same file),                                                         *)
(*   - the object-dictionary callbacks of the parameter store and the      *)
(*     node-id negotiation at start-up (canopen.cpp).                      *)
(* 32-bit CAN words are kept as records of their low 29 bits and the three *)
(* flag bits (29 = ERR, 30 = RTR, 31 = EFF), so that masking and xor are   *)
(* computed bit by bit as the C operators compute them.                    *)
(***************************************************************************)
EXTENDS Integers, Sequences, FiniteSets, TLC

VARIABLES
    eh,        \* CO_CANinterfaceErrorhandler_t: listenOnly, timestamp, noackCounter
    now,       \* CLOCK_MONOTONIC, in clock ticks
    rxArray,   \* CANmodule->rxArray, indexed 0 .. RxSize-1 (allocated capacity)
    rxSize,    \* CANmodule->rxSize
    txCount,   \* frames queued inside the transport (can_write / hardware)
    run,       \* history: length of the current run of no-ACK error frames
    od,        \* object dictionary in RAM: OD_serialNumber, OD_identity, 0x1010, 0x1011, OD_CANNodeID
    storage,   \* Canopen_storage: what the non-volatile memory holds
    co,        \* Canopen object and the main task's position in init()/process()
    hist,      \* history: counts of the steps executed so far
    txArray,   \* CANmodule->txArray: the bufferFull flag of every transmit descriptor
    th,        \* the polling task (timer_rx_thread), the main task in deinit()/init(),
               \* timer_rx_suspend, timer_rx_handle and the reboot request
    odt,       \* the object dictionary as CO_OD_find sees it: (index, subindex) -> entry
    sock,      \* the CAN socket (CANerrorhandler->fd): link state, receive queue, and
               \* the position of CO_CANerrorResetIf between its commands
    dc,        \* store_lss_config_callback between its steps (its arguments and
               \* locals), OD_daisyChain.shiftIn and the last daisy-chain event sent
    last       \* history: the last call, its arguments and its result

vars == <<eh, now, rxArray, rxSize, txCount, run, od, storage, co, hist, txArray, th, odt,
          sock, dc, last>>

(***************************************************************************)
(* Bounds of the model.                                                    *)
(***************************************************************************)
TicksPerSec == 2   \* resolution of the modelled clock below one second
MaxSec      == 6   \* the clock stops advancing after this many seconds
RxSize      == 2   \* allocated capacity of the receive table
TxQueueSize == 1   \* capacity of the transport's transmit queue
TxSize      == 2   \* allocated capacity of the transmit table
MaxLoops    == 2   \* iterations of the negotiation loop that are counted
MaxResets   == 2   \* reset requests that process() handles
MaxFrames   == 3   \* frames that arrive at the socket
SockQueueSize == 2 \* capacity of the socket's receive queue
MaxShifts   == 2   \* daisy-chain shift-in events

(***************************************************************************)
(* Program constants.                                                      *)
(***************************************************************************)
NoackThreshold == 10    \* noackCounter > 10
DwellSeconds   == 5     \* timestamp.tv_sec + 5 < now.tv_sec
CAN_ERR_BUSOFF == 64    \* linux/can/error.h 0x00000040U
CAN_ERR_ACK    == 32    \* linux/can/error.h 0x00000020U
CAN_ERR_CRTL   == 4     \* linux/can/error.h 0x00000004U
SffBits        == 2047  \* CAN_SFF_MASK 0x000007FFU
U8Mod          == 256   \* width of uint8_t can_dlc

NULL == 0

(***************************************************************************)
(* Bitwise operators of C on naturals.                                     *)
(***************************************************************************)
RECURSIVE BitAnd(_, _)
BitAnd(a, b) ==
    IF a = 0 \/ b = 0 THEN 0
    ELSE (a % 2) * (b % 2) + 2 * BitAnd(a \div 2, b \div 2)

RECURSIVE BitXor(_, _)
BitXor(a, b) ==
    IF a = 0 THEN b
    ELSE IF b = 0 THEN a
    ELSE ((a + b) % 2) + 2 * BitXor(a \div 2, b \div 2)

RECURSIVE BitOr(_, _)
BitOr(a, b) ==
    IF a = 0 THEN b
    ELSE IF b = 0 THEN a
    ELSE (IF a % 2 = 1 \/ b % 2 = 1 THEN 1 ELSE 0) + 2 * BitOr(a \div 2, b \div 2)

(* A 32-bit word: bits 0..28, bit 29 (ERR), bit 30 (RTR), bit 31 (EFF). *)
W(low, err, rtr, eff) == [low |-> low, err |-> err, rtr |-> rtr, eff |-> eff]

WAnd(x, y) == W(BitAnd(x.low, y.low), x.err /\ y.err, x.rtr /\ y.rtr, x.eff /\ y.eff)
WXor(x, y) == W(BitXor(x.low, y.low), x.err # y.err, x.rtr # y.rtr, x.eff # y.eff)
WOr(x, y)  == W(BitOr(x.low, y.low), x.err \/ y.err, x.rtr \/ y.rtr, x.eff \/ y.eff)
WIsZero(x) == x.low = 0 /\ ~x.err /\ ~x.rtr /\ ~x.eff

CAN_SFF_MASK == W(SffBits, FALSE, FALSE, FALSE)
CAN_ERR_FLAG == W(0, TRUE, FALSE, FALSE)
CAN_RTR_FLAG == W(0, FALSE, TRUE, FALSE)
CAN_EFF_FLAG == W(0, FALSE, FALSE, TRUE)

(* Integer promotion of a uint8_t to a 32-bit word. *)
U8(v) == W(v % U8Mod, FALSE, FALSE, FALSE)

(***************************************************************************)
(* Clock.                                                                  *)
(***************************************************************************)
clock_gettime(t) == [tv_sec |-> t \div TicksPerSec, tv_nsec |-> t % TicksPerSec]
ZeroTime == [tv_sec |-> 0, tv_nsec |-> 0]

(***************************************************************************)
(* FaultRecovery: CO_error.c                                               *)
(***************************************************************************)
CO_INTERFACE_ACTIVE      == "CO_INTERFACE_ACTIVE"
CO_INTERFACE_LISTEN_ONLY == "CO_INTERFACE_LISTEN_ONLY"
CO_INTERFACE_BUS_OFF     == "CO_INTERFACE_BUS_OFF"

(* Result of a FaultRecovery call: the handler afterwards, the state it    *)
(* returns, and how often the interface was cycled down/up.                *)
Out(h, result, resets) == [h |-> h, result |-> result, resets |-> resets]

ResetIfKeepsFirstTimestamp(h, t) ==
    Out([h EXCEPT !.timestamp = IF h.listenOnly THEN @ ELSE clock_gettime(t),
                  !.listenOnly = TRUE],
        CO_INTERFACE_LISTEN_ONLY, 1)

CO_CANerrorResetIf(h, t) ==
    Out([h EXCEPT !.timestamp = clock_gettime(t), !.listenOnly = TRUE],
        CO_INTERFACE_LISTEN_ONLY, 1)

(* recv(fd, &dummy, sizeof(dummy), MSG_DONTWAIT) as if the queue were      *)
(* always empty.                                                           *)
RecvReportsEmpty(queue) == [n |-> -1, frame |-> 0, queue |-> queue]

(* recv(fd, &dummy, sizeof(dummy), MSG_DONTWAIT): takes the oldest frame   *)
(* of the receive queue and returns its size, or returns -1 at once when   *)
(* the queue is empty.                                                     *)
recv(queue) ==
    IF queue # <<>>
    THEN [n |-> 1, frame |-> Head(queue), queue |-> Tail(queue)]
    ELSE [n |-> -1, frame |-> 0, queue |-> queue]

ClearTimestampOnly(h) == [h EXCEPT !.timestamp = ZeroTime]

CO_CANerrorClearListenOnly(h) ==
    [h EXCEPT !.listenOnly = FALSE, !.timestamp = ZeroTime]

BusoffResultNotReturned(h, msg, t) ==
    IF BitAnd(msg.can_id.low, CAN_ERR_BUSOFF) # 0
    THEN Out(CO_CANerrorResetIf(h, t).h, CO_INTERFACE_ACTIVE, 1)
    ELSE Out(h, CO_INTERFACE_ACTIVE, 0)

CO_CANerrorBusoff(h, msg, t) ==
    IF BitAnd(msg.can_id.low, CAN_ERR_BUSOFF) # 0
    THEN CO_CANerrorResetIf(h, t)
    ELSE Out(h, CO_INTERFACE_ACTIVE, 0)

CrtlResetsInterface(h, msg, t) ==
    IF BitAnd(msg.can_id.low, CAN_ERR_CRTL) # 0
    THEN CO_CANerrorResetIf(h, t)
    ELSE Out(h, CO_INTERFACE_ACTIVE, 0)

(* Every branch under CAN_ERR_CRTL only writes a log line. *)
CO_CANerrorCrtl(h, msg, t) == Out(h, CO_INTERFACE_ACTIVE, 0)

NoackExceededGe(counter) == counter >= NoackThreshold

NoackExceeded(counter) == counter > NoackThreshold

CO_CANerrorNoack(h, msg, t) ==
    IF BitAnd(msg.can_id.low, CAN_ERR_ACK) # 0
    THEN LET h1 == [h EXCEPT !.noackCounter = h.noackCounter + 1]
         IN  IF NoackExceeded(h1.noackCounter)
             THEN LET r == CO_CANerrorResetIf(h1, t)
                  IN  Out([r.h EXCEPT !.noackCounter = 0], r.result, r.resets)
             ELSE Out(h1, CO_INTERFACE_ACTIVE, 0)
    ELSE Out([h EXCEPT !.noackCounter = 0], CO_INTERFACE_ACTIVE, 0)

CO_CANerror_init(isNull, h) ==
    IF isNull THEN h
    ELSE [listenOnly |-> FALSE, timestamp |-> ZeroTime, noackCounter |-> 0]

CO_CANerror_disable(isNull, h) ==
    IF isNull THEN h
    ELSE [listenOnly |-> FALSE, timestamp |-> ZeroTime, noackCounter |-> 0]

RxMsgClearsOnlyQuietCounter(isNull, h) ==
    IF isNull THEN h
    ELSE IF h.listenOnly = TRUE /\ h.noackCounter = 0 THEN CO_CANerrorClearListenOnly(h)
    ELSE h

CO_CANerror_rxMsg(isNull, h) ==
    IF isNull THEN h
    ELSE IF h.listenOnly = TRUE THEN CO_CANerrorClearListenOnly(h)
    ELSE h

DwellElapsedLe(ts, t) == ts.tv_sec + DwellSeconds <= clock_gettime(t).tv_sec

DwellElapsed(ts, t) == ts.tv_sec + DwellSeconds < clock_gettime(t).tv_sec

CO_CANerror_txMsg(isNull, h, t) ==
    IF isNull THEN Out(h, CO_INTERFACE_BUS_OFF, 0)
    ELSE IF h.listenOnly = TRUE
    THEN IF DwellElapsed(h.timestamp, t)
         THEN Out(CO_CANerrorClearListenOnly(h), CO_INTERFACE_ACTIVE, 0)
         ELSE Out(h, CO_INTERFACE_LISTEN_ONLY, 0)
    ELSE Out(h, CO_INTERFACE_ACTIVE, 0)

CO_CANerror_rxMsgError(isNull, h, msg, t) ==
    IF isNull THEN Out(h, CO_INTERFACE_BUS_OFF, 0)
    ELSE LET b == CO_CANerrorBusoff(h, msg, t)
         IN  IF b.result # CO_INTERFACE_ACTIVE THEN b
             ELSE LET c == CO_CANerrorCrtl(b.h, msg, t)
                  IN  IF c.result # CO_INTERFACE_ACTIVE THEN c
                      ELSE LET n == CO_CANerrorNoack(c.h, msg, t)
                           IN  IF n.result # CO_INTERFACE_ACTIVE THEN n
                               ELSE Out(n.h, CO_INTERFACE_ACTIVE, n.resets)

(***************************************************************************)
(* BufferTable / DispatchEngine: CO_driver.c                               *)
(***************************************************************************)
CO_ERROR_NO               == "CO_ERROR_NO"
CO_ERROR_ILLEGAL_ARGUMENT == "CO_ERROR_ILLEGAL_ARGUMENT"
CO_ERROR_TIMEOUT          == "CO_ERROR_TIMEOUT"
CO_ERROR_RX_OVERFLOW      == "CO_ERROR_RX_OVERFLOW"
CO_ERROR_TX_OVERFLOW      == "CO_ERROR_TX_OVERFLOW"
CO_ERROR_TX_BUSY          == "CO_ERROR_TX_BUSY"

CAN_OK          == "CAN_OK"
CAN_ERR_TIMEOUT == "CAN_ERR_TIMEOUT"
CAN_ERR_OTHER   == "CAN_ERR_OTHER"

Slots == 0 .. RxSize - 1

(* CO_CANmodule_init: clears ident and pFunct of the first n slots; mask   *)
(* and object are left as they are.                                        *)
CO_CANmodule_init(arr, n) ==
    [i \in Slots |->
        IF i < n
        THEN [arr[i] EXCEPT !.ident = W(0, FALSE, FALSE, FALSE), !.pFunct = NULL]
        ELSE arr[i]]

RxBufferInitUnbounded(arr, size, moduleNull, index, ident, mask, rtr, object, pFunct) ==
    IF ~moduleNull /\ object # NULL /\ pFunct # NULL
    THEN [arr |-> [i \in Slots |->
                      IF i = index \/ (index >= size /\ i = size - 1)
                      THEN [ident |-> W(ident, FALSE, rtr, FALSE),
                            mask |-> W(mask, FALSE, TRUE, TRUE),
                            object |-> object, pFunct |-> pFunct]
                      ELSE arr[i]],
          res |-> CO_ERROR_NO]
    ELSE [arr |-> arr, res |-> CO_ERROR_ILLEGAL_ARGUMENT]

CO_CANrxBufferInit(arr, size, moduleNull, index, ident, mask, rtr, object, pFunct) ==
    IF ~moduleNull /\ object # NULL /\ pFunct # NULL /\ index < size
    THEN LET id0 == WAnd(W(ident, FALSE, FALSE, FALSE), CAN_SFF_MASK)
             id1 == IF rtr THEN WOr(id0, CAN_RTR_FLAG) ELSE id0
             m   == WOr(WOr(WAnd(W(mask, FALSE, FALSE, FALSE), CAN_SFF_MASK),
                            CAN_EFF_FLAG), CAN_RTR_FLAG)
         IN  [arr |-> [arr EXCEPT ![index] =
                          [ident |-> id1, mask |-> m, object |-> object, pFunct |-> pFunct]],
              res |-> CO_ERROR_NO]
    ELSE [arr |-> arr, res |-> CO_ERROR_ILLEGAL_ARGUMENT]

TxSlots == 0 .. TxSize - 1

(* CO_CANmodule_init: for (i = 0U; i < txSize; i++) txArray[i].bufferFull = false *)
CO_CANmodule_init_tx(txa) == [i \in TxSlots |-> [txa[i] EXCEPT !.bufferFull = FALSE]]

(* can_write: the transport queues the frame unless its queue is full. *)
can_write(q) ==
    IF q < TxQueueSize THEN [state |-> CAN_OK, q |-> q + 1]
    ELSE [state |-> CAN_ERR_OTHER, q |-> q]

SendReportsNoOverflow(moduleNull, bufferNull, h, t, q) ==
    IF ~moduleNull /\ ~bufferNull
    THEN [res |-> CO_ERROR_NO, q |-> can_write(q).q, h |-> h,
          written |-> can_write(q).state = CAN_OK]
    ELSE [res |-> CO_ERROR_ILLEGAL_ARGUMENT, q |-> q, h |-> h, written |-> FALSE]

(* CO_CANsend hands the frame to can_write and writes neither the buffer    *)
(* nor txArray.                                                            *)
CO_CANsend(moduleNull, bufferNull, h, t, q) ==
    IF ~moduleNull /\ ~bufferNull
    THEN LET w == can_write(q)
         IN  IF w.state # CAN_OK
             THEN [res |-> CO_ERROR_TX_OVERFLOW, q |-> w.q, h |-> h, written |-> FALSE]
             ELSE [res |-> CO_ERROR_NO, q |-> w.q, h |-> h, written |-> TRUE]
    ELSE [res |-> CO_ERROR_ILLEGAL_ARGUMENT, q |-> q, h |-> h, written |-> FALSE]

useCANrxFilters == FALSE

(* if ((frame.can_dlc & CAN_EFF_FLAG) != 0) *)
IsExtendedDropped(frame) == ~WIsZero(WAnd(U8(frame.can_dlc), CAN_EFF_FLAG))

ErrorFlagIgnored(frame) == FALSE

(* if ((frame.can_id & CAN_ERR_FLAG) != 0) *)
IsErrorFrame(frame) == ~WIsZero(WAnd(frame.can_id, CAN_ERR_FLAG))

RxMatchLowByte(rx_id, buffer) ==
    BitAnd(BitXor(rx_id.low, buffer.ident.low), U8Mod - 1) = 0

(* ((rx_id ^ buffer->ident) & buffer->mask) == 0U *)
RxMatch(rx_id, buffer) == WIsZero(WAnd(WXor(rx_id, buffer.ident), buffer.mask))

RxScanHighest(arr, rx_id, k, i) ==
    LET M == {j \in k .. k + i - 1 : RxMatch(rx_id, arr[j])}
    IN  IF M = {} THEN [matched |-> FALSE, buffer |-> k + i]
        ELSE [matched |-> TRUE, buffer |-> CHOOSE j \in M : \A j2 \in M : j2 <= j]

(* for (i = rxSize; i > 0U; i--) { if (match) {matched = true; break;} buffer++; } *)
RECURSIVE RxScan(_, _, _, _)
RxScan(arr, rx_id, k, i) ==
    IF i = 0 THEN [matched |-> FALSE, buffer |-> k]
    ELSE IF RxMatch(rx_id, arr[k]) THEN [matched |-> TRUE, buffer |-> k]
    ELSE RxScan(arr, rx_id, k + 1, i - 1)

RxSearch(arr, size, rx_id) == RxScan(arr, rx_id, 0, size)

(* The outcome of one poll: the value returned, the slots whose handler    *)
(* was called (in call order), whether a frame was taken from the          *)
(* transport, and the FaultRecovery handler afterwards.                    *)
RxOut(res, invoked, read, h) ==
    [res |-> res, invoked |-> invoked, read |-> read, h |-> h]

(* CO_CANrxWait as if the search went on after a match and called the      *)
(* handler of every matching slot.                                         *)
RxWaitCallsEveryMatch(moduleNull, arr, size, pollState, readState, frame, h, t) ==
    IF moduleNull THEN RxOut(CO_ERROR_ILLEGAL_ARGUMENT, <<>>, FALSE, h)
    ELSE IF pollState = CAN_ERR_TIMEOUT THEN RxOut(CO_ERROR_TIMEOUT, <<>>, FALSE, h)
    ELSE IF pollState # CAN_OK THEN RxOut(CO_ERROR_RX_OVERFLOW, <<>>, FALSE, h)
    ELSE IF readState # CAN_OK THEN RxOut(CO_ERROR_RX_OVERFLOW, <<>>, FALSE, h)
    ELSE IF IsExtendedDropped(frame) THEN RxOut(CO_ERROR_NO, <<>>, TRUE, h)
    ELSE IF IsErrorFrame(frame) THEN RxOut(CO_ERROR_NO, <<>>, TRUE, h)
    ELSE LET rx_id == WAnd(frame.can_id, CAN_SFF_MASK)
             Called(j) == RxMatch(rx_id, arr[j]) /\ arr[j].pFunct # NULL
         IN  RxOut(CO_ERROR_NO,
                   SelectSeq([j \in 1 .. size |-> j - 1], Called), TRUE, h)

CO_CANrxWait(moduleNull, arr, size, pollState, readState, frame, h, t) ==
    IF moduleNull THEN RxOut(CO_ERROR_ILLEGAL_ARGUMENT, <<>>, FALSE, h)
    ELSE IF pollState = CAN_ERR_TIMEOUT THEN RxOut(CO_ERROR_TIMEOUT, <<>>, FALSE, h)
    ELSE IF pollState # CAN_OK THEN RxOut(CO_ERROR_RX_OVERFLOW, <<>>, FALSE, h)
    ELSE IF readState # CAN_OK THEN RxOut(CO_ERROR_RX_OVERFLOW, <<>>, FALSE, h)
    ELSE IF IsExtendedDropped(frame) THEN RxOut(CO_ERROR_NO, <<>>, TRUE, h)
    ELSE IF IsErrorFrame(frame) THEN RxOut(CO_ERROR_NO, <<>>, TRUE, h)
    ELSE LET rx_id == WAnd(frame.can_id, CAN_SFF_MASK)
         IN  IF useCANrxFilters THEN RxOut(CO_ERROR_NO, <<>>, TRUE, h)
             ELSE LET s == RxSearch(arr, size, rx_id)
                  IN  IF s.matched /\ arr[s.buffer].pFunct # NULL
                      THEN RxOut(CO_ERROR_NO, <<s.buffer>>, TRUE, h)
                      ELSE RxOut(CO_ERROR_NO, <<>>, TRUE, h)

(***************************************************************************)
(* ParameterStore: the callbacks of objects 0x1010, 0x1011 and 0x5000      *)
(* (canopen.cpp).                                                          *)
(***************************************************************************)
CO_SDO_AB_NONE        == "CO_SDO_AB_NONE"
CO_SDO_AB_DATA_TRANSF == "CO_SDO_AB_DATA_TRANSF"
CO_SDO_AB_HW          == "CO_SDO_AB_HW"
CO_SDO_AB_SUB_UNKNOWN == "CO_SDO_AB_SUB_UNKNOWN"
CO_SDO_AB_READONLY    == "CO_SDO_AB_READONLY"

SaveSignature == 1702257011   \* 0x65766173 "save"
LoadSignature == 1684107116   \* 0x64616F6C "load"
SerialMod     == 100000000    \* OD_serialNumber.serial % 100000000
Uid           == 305419896    \* system_get_uid32()

(* Canopen_storage::storage_type_t *)
COMMUNICATION == "COMMUNICATION"
PARAMS        == "PARAMS"
RUNTIME       == "RUNTIME"
SERIAL        == "SERIAL"
TEST          == "TEST"
CALIB         == "CALIB"
Groups == {COMMUNICATION, PARAMS, RUNTIME, SERIAL, TEST, CALIB}

(* The groups whose entries are modelled as one image each; the image of   *)
(* COMMUNICATION is the node id, that of SERIAL the serial-number record.  *)
ImageGroups == {PARAMS, RUNTIME, TEST, CALIB}
DefaultImage == [g \in ImageGroups |-> "default"]
StoredImage  == [g \in ImageGroups |-> "stored"]

(* storage.save(type): on success the group's RAM image is in the          *)
(* non-volatile memory; on a storage error nothing is written.             *)
StorageSave(st, type, odv, ok) ==
    IF ok[type]
    THEN [st EXCEPT !.saved = @ \cup {type},
                    !.serial = IF type = SERIAL THEN odv.serialNumber ELSE @,
                    !.nid = IF type = COMMUNICATION THEN odv.CANNodeID ELSE @,
                    !.image = IF type \in ImageGroups
                              THEN [@ EXCEPT ![type] = odv.image[type]] ELSE @]
    ELSE st

(* storage.restore(type): the defaults replace the group at the next load; *)
(* RAM is not touched.                                                     *)
StorageRestore(st, type) == [st EXCEPT !.restore = @ \cup {type}]

(* What a callback leaves behind: the abort code, the write target         *)
(* (p_odf_arg->data), the object dictionary, the storage and the groups    *)
(* storage.save was called for, in call order.                             *)
CbOut(abort, data, odv, st, saves) ==
    [abort |-> abort, data |-> data, od |-> odv, storage |-> st, saves |-> saves]

WrittenValueKept(data, stored) == data

(* *p_data = *(reinterpret_cast<const u32*>(p_odf_arg->ODdataStorage)) *)
RestoreOriginal(data, stored) == stored

StoreForbiddenNowhere(subIndex) == FALSE

(* case OD_1010_2_...saveCommunicationRelatedParameters:                   *)
(* case OD_1010_4_...saveRuntime: return CO_SDO_AB_DATA_TRANSF             *)
IsStoreForbidden(subIndex) == subIndex \in {2, 4}

SignatureAny(signature) == TRUE

(* signature != 0x65766173 *)
SignatureOk(signature) == signature = SaveSignature

SerialStoreAlways(odv) == TRUE

(* if (OD_serialNumber.valid != false) return CO_SDO_AB_DATA_TRANSF *)
SerialStoreAllowed(odv) == ~(odv.serialNumber.valid # FALSE)

(* result = storage.save(type); if (result != CO_ERROR_NO) return CO_SDO_AB_HW *)
SaveOne(type, d, odv, st, ok) ==
    IF ok[type]
    THEN CbOut(CO_SDO_AB_NONE, d, odv, StorageSave(st, type, odv, ok), <<type>>)
    ELSE CbOut(CO_SDO_AB_HW, d, odv, st, <<type>>)

(* case OD_1010_1_storeParameters_saveAllParameters *)
SaveAll(d, odv, st, ok) ==
    LET s1 == StorageSave(st, PARAMS, odv, ok)
        s2 == StorageSave(s1, TEST, odv, ok)
        s3 == StorageSave(s2, CALIB, odv, ok)
    IN  IF ~ok[PARAMS] THEN CbOut(CO_SDO_AB_HW, d, odv, s1, <<PARAMS>>)
        ELSE IF ~ok[TEST] THEN CbOut(CO_SDO_AB_HW, d, odv, s2, <<PARAMS, TEST>>)
        ELSE IF ~ok[CALIB] THEN CbOut(CO_SDO_AB_HW, d, odv, s3, <<PARAMS, TEST, CALIB>>)
        ELSE CbOut(CO_SDO_AB_NONE, d, odv, s3, <<PARAMS, TEST, CALIB>>)

store_parameters_callback(reading, subIndex, data, stored, odv, st, ok) ==
    IF reading = TRUE THEN CbOut(CO_SDO_AB_NONE, data, odv, st, <<>>)
    ELSE LET signature == data
             d == RestoreOriginal(data, stored)
         IN  IF IsStoreForbidden(subIndex)
             THEN CbOut(CO_SDO_AB_DATA_TRANSF, d, odv, st, <<>>)
             ELSE IF ~SignatureOk(signature)
             THEN CbOut(CO_SDO_AB_DATA_TRANSF, d, odv, st, <<>>)
             ELSE IF subIndex = 1 THEN SaveAll(d, odv, st, ok)
             ELSE IF subIndex = 3 THEN SaveOne(PARAMS, d, odv, st, ok)
             ELSE IF subIndex = 5
             THEN IF ~SerialStoreAllowed(odv)
                  THEN CbOut(CO_SDO_AB_DATA_TRANSF, d, odv, st, <<>>)
                  ELSE SaveOne(SERIAL, d,
                               [odv EXCEPT !.serialNumber.valid = TRUE,
                                           !.identity.serialNumber =
                                               odv.serialNumber.serial % SerialMod],
                               st, ok)
             ELSE IF subIndex = 6 THEN SaveOne(TEST, d, odv, st, ok)
             ELSE IF subIndex = 7 THEN SaveOne(CALIB, d, odv, st, ok)
             ELSE CbOut(CO_SDO_AB_SUB_UNKNOWN, d, odv, st, <<>>)

restore_default_parameters_callback(reading, subIndex, data, stored, odv, st) ==
    IF reading = TRUE THEN CbOut(CO_SDO_AB_NONE, data, odv, st, <<>>)
    ELSE LET signature == data
             d == RestoreOriginal(data, stored)
         IN  IF subIndex \in {1, 3}
             THEN IF signature # LoadSignature
                  THEN CbOut(CO_SDO_AB_DATA_TRANSF, d, odv, st, <<>>)
                  ELSE CbOut(CO_SDO_AB_NONE, d, odv, StorageRestore(st, PARAMS), <<>>)
             ELSE IF subIndex \in {2, 4, 5, 6, 7}
             THEN CbOut(CO_SDO_AB_DATA_TRANSF, d, odv, st, <<>>)
             ELSE CbOut(CO_SDO_AB_SUB_UNKNOWN, d, odv, st, <<>>)

serial_number_callback(reading, subIndex, data, stored, odv, st) ==
    IF reading = TRUE THEN CbOut(CO_SDO_AB_NONE, data, odv, st, <<>>)
    ELSE IF subIndex = 2
    THEN IF odv.serialNumber.valid = TRUE
         THEN CbOut(CO_SDO_AB_READONLY, stored, odv, st, <<>>)
         ELSE CbOut(CO_SDO_AB_NONE, data, odv, st, <<>>)
    ELSE CbOut(CO_SDO_AB_SUB_UNKNOWN, data, odv, st, <<>>)

(* The SDO server after the callback of a download: the write target is    *)
(* copied into the object dictionary unless the callback aborted.          *)
CO_SDO_writeOD(stored, cb) ==
    IF cb.abort = CO_SDO_AB_NONE THEN cb.data ELSE stored

(***************************************************************************)
(* AddressNegotiator: init(), lss_check(), co_init(),                      *)
(* lss_nid_assignment(), co_start(), deinit(), process() (canopen.cpp).    *)
(***************************************************************************)
CO_LSS_NODE_ID_ASSIGNMENT  == 255   \* 0xFF: no node id assigned
CO_LSS_STATE_WAITING       == "CO_LSS_STATE_WAITING"
CO_LSS_STATE_CONFIGURATION == "CO_LSS_STATE_CONFIGURATION"

CO_RESET_NOT  == "CO_RESET_NOT"
CO_RESET_COMM == "CO_RESET_COMM"
CO_RESET_APP  == "CO_RESET_APP"
CO_RESET_QUIT == "CO_RESET_QUIT"

(* A node id that can be used on the bus. *)
CO_LSS_NODE_ID_VALID(nid) == nid \in 1 .. 127

(* storage.load(type) succeeds when the group is present, readable and not *)
(* scheduled for restoration; otherwise the RAM image keeps its defaults.  *)
StorageLoad(st, type, ok) == ok[type] /\ type \in st.saved /\ type \notin st.restore

(* od_set_defaults as if it also reset the validity flag of 0x5000. *)
SetDefaultsClearsValid(odv) ==
    [odv EXCEPT !.identity.serialNumber = Uid,
                !.CANNodeID = 0,
                !.serialNumber = [valid |-> FALSE, serial |-> Uid]]

(* The part of od_set_defaults() that writes modelled entries. *)
od_set_defaults(odv) ==
    [odv EXCEPT !.identity.serialNumber = Uid,
                !.CANNodeID = 0,
                !.serialNumber.serial = Uid]

(* store_lss_config_callback: the node id to be stored is entered in       *)
(* OD_CANNodeID and the COMMUNICATION group is saved; the function returns *)
(* true at once when the save succeeded, and re-enters the saved active    *)
(* node id only on the path after a failed save.                           *)
store_lss_config_callback(nid, odv, st, ok) ==
    LET active_nid == odv.CANNodeID
        o1 == [odv EXCEPT !.CANNodeID = nid]
        result == ok[COMMUNICATION]
    IN  IF result
        THEN [od |-> o1, storage |-> StorageSave(st, COMMUNICATION, o1, ok),
              res |-> TRUE]
        ELSE [od |-> [o1 EXCEPT !.CANNodeID = active_nid],
              storage |-> StorageSave(st, COMMUNICATION, o1, ok),
              res |-> FALSE]

(* A successful storage.load(type) copies the stored group over its RAM    *)
(* image.                                                                  *)
LoadGroup(odv, st, type) ==
    IF type = COMMUNICATION THEN [odv EXCEPT !.CANNodeID = st.nid]
    ELSE IF type = SERIAL THEN [odv EXCEPT !.serialNumber = st.serial]
    ELSE [odv EXCEPT !.image[type] = st.image[type]]

(* od_load_start as if a failed load ended the sequence: a group is loaded *)
(* only when every group before it was.                                    *)
LoadStopsAtFirstFailure(odv, st, ok) ==
    LET order == <<COMMUNICATION, PARAMS, RUNTIME, SERIAL, TEST, CALIB>>
        reached(i) == \A j \in 1 .. i : StorageLoad(st, order[j], ok)
        step(o, i) == IF reached(i) THEN LoadGroup(o, st, order[i]) ELSE o
        o4 == step(step(step(step(odv, 1), 2), 3), 4)
        o5 == IF reached(4) /\ o4.serialNumber.valid = TRUE
              THEN [o4 EXCEPT !.identity.serialNumber =
                                  o4.serialNumber.serial % SerialMod]
              ELSE o4
    IN  step(step(o5, 5), 6)

(* od_load_start: six loads in the order of the source; a failure is       *)
(* logged and the next group is loaded. After SERIAL the identity object   *)
(* takes the stored serial number when that is marked valid.               *)
od_load_start(odv, st, ok) ==
    LET step(o, type) == IF StorageLoad(st, type, ok) THEN LoadGroup(o, st, type) ELSE o
        o1 == step(odv, COMMUNICATION)
        o2 == step(o1, PARAMS)
        o3 == step(o2, RUNTIME)
        o4 == step(o3, SERIAL)
        o5 == IF StorageLoad(st, SERIAL, ok) /\ o4.serialNumber.valid = TRUE
              THEN [o4 EXCEPT !.identity.serialNumber =
                                  o4.serialNumber.serial % SerialMod]
              ELSE o4
        o6 == step(o5, TEST)
    IN  step(o6, CALIB)

LssCheckAlwaysClaims(pending_nid, nodeId, active_nid) ==
    IF pending_nid = 0
    THEN [pending_nid |-> CO_LSS_NODE_ID_ASSIGNMENT,
          active_nid |-> CO_LSS_NODE_ID_ASSIGNMENT, persisted |-> nodeId]
    ELSE [pending_nid |-> pending_nid, active_nid |-> active_nid, persisted |-> -1]

LssCheckPrefersPersisted(pending_nid, nodeId, active_nid) ==
    IF CO_LSS_NODE_ID_VALID(nodeId)
    THEN [pending_nid |-> nodeId, active_nid |-> active_nid, persisted |-> nodeId]
    ELSE IF pending_nid = 0
    THEN [pending_nid |-> CO_LSS_NODE_ID_ASSIGNMENT,
          active_nid |-> CO_LSS_NODE_ID_ASSIGNMENT, persisted |-> nodeId]
    ELSE [pending_nid |-> pending_nid, active_nid |-> active_nid, persisted |-> -1]

(* lss_check: the pending node id, *p_active_nid, and the value of         *)
(* OD_CANNodeID it read (-1 when it did not read it).                      *)
lss_check(pending_nid, nodeId, active_nid) ==
    IF pending_nid = 0
    THEN IF ~CO_LSS_NODE_ID_VALID(nodeId)
         THEN [pending_nid |-> CO_LSS_NODE_ID_ASSIGNMENT,
               active_nid |-> CO_LSS_NODE_ID_ASSIGNMENT, persisted |-> nodeId]
         ELSE [pending_nid |-> nodeId, active_nid |-> active_nid, persisted |-> nodeId]
    ELSE [pending_nid |-> pending_nid, active_nid |-> active_nid, persisted |-> -1]

(* CO_LSSinit(pending_nid, bit): the LSS slave waits, holding the pending id. *)
CO_LSSinit(pending_nid) ==
    [state |-> CO_LSS_STATE_WAITING, pendingNodeID |-> pending_nid]

(* CO_LSSslave_process: *pendingNodeId = LSSslave->pendingNodeID *)
CO_LSSslave_process(l) == l.pendingNodeID

(* What an LSS master can do to the slave through received frames: switch  *)
(* its state, or configure a node id while it is in configuration state.   *)
LssAfter(l, ev) ==
    IF ev[1] = "switch" THEN [l EXCEPT !.state = ev[2]]
    ELSE IF ev[1] = "configure" /\ l.state = CO_LSS_STATE_CONFIGURATION
    THEN [l EXCEPT !.pendingNodeID = ev[2]]
    ELSE l

LssExitOnWaiting(pending_nid, lssState) == lssState = CO_LSS_STATE_WAITING

(* pending_nid != CO_LSS_NODE_ID_ASSIGNMENT &&                             *)
(* CO_LSSslave_getState(CO->LSSslave) == CO_LSS_STATE_WAITING              *)
LssAssigned(pending_nid, lssState) ==
    pending_nid # CO_LSS_NODE_ID_ASSIGNMENT /\ lssState = CO_LSS_STATE_WAITING

(* deinit: CO_delete, *p_active_nid = 0 *)
deinit(c) == [c EXCEPT !.active_nid = 0, !.lss = CO_LSSinit(0)]

(* init() from its entry to the call of lss_nid_assignment():              *)
(* od_set_defaults, od_load_start, lss_check, co_init.                     *)
InitEntry(c, odv, st, nid, loadOk, initOk) ==
    LET o == od_load_start(od_set_defaults(odv), st, loadOk)
        k == lss_check(nid, o.CANNodeID, c.active_nid)
    IN  [od |-> o,
         persisted |-> k.persisted,
         co |-> [c EXCEPT !.nid = nid,
                          !.pending_nid = k.pending_nid,
                          !.active_nid = k.active_nid,
                          !.lss = IF initOk THEN CO_LSSinit(k.pending_nid) ELSE @,
                          !.pc = IF initOk THEN "lss_process" ELSE "failed"]]

(***************************************************************************)
(* Typed access to the object dictionary: get_od_pointer(), od_get(),      *)
(* od_set() (canopen.cpp). The dictionary maps <<index, subindex>> to the  *)
(* length and the content of an entry; a pointer to an entry is its key,   *)
(* the empty tuple is the NULL pointer.                                    *)
(***************************************************************************)
CO_OD_NOT_FOUND == 65535   \* 0xffff
NullPointer == <<>>

(* CO_OD_find: the entry of an index, or 0xffff when there is none. *)
CO_OD_find(t, index) ==
    IF \E k \in DOMAIN t : k[1] = index THEN index ELSE CO_OD_NOT_FOUND

(* CO_OD_getLength: the stored size in bytes; no size for a missing subindex. *)
CO_OD_getLength(t, entry, subindex) ==
    IF <<entry, subindex>> \in DOMAIN t THEN t[<<entry, subindex>>].length ELSE 0

CO_OD_getDataPointer(t, entry, subindex) ==
    IF <<entry, subindex>> \in DOMAIN t THEN <<entry, subindex>> ELSE NullPointer

GetOdPointerAnySize(t, index, subindex, size) ==
    CO_OD_getDataPointer(t, index, subindex)

(* u8 length = CO_OD_getLength(...); if (length != size) return NULL *)
get_od_pointer(t, index, subindex, size) ==
    LET entry == CO_OD_find(t, index)
    IN  IF entry = CO_OD_NOT_FOUND THEN NullPointer
        ELSE LET length == CO_OD_getLength(t, entry, subindex) % U8Mod
             IN  IF length # size THEN NullPointer
                 ELSE CO_OD_getDataPointer(t, entry, subindex)

(* od_get for u8 .. u64, s8 .. s64 and f32: size is the size of that type. *)
od_get(t, index, subindex, size) ==
    LET p == get_od_pointer(t, index, subindex, size)
    IN  IF p = NullPointer THEN 0 ELSE t[p].data

(* The bool overload of od_get: size is sizeof(u8). *)
od_get_bool(t, index, subindex) ==
    LET p == get_od_pointer(t, index, subindex, 1)
    IN  IF p = NullPointer THEN FALSE ELSE IF t[p].data = 0 THEN FALSE ELSE TRUE

(* od_set for u8 .. u64, s8 .. s64 and f32: size is sizeof(val). *)
od_set(t, index, subindex, size, val) ==
    LET p == get_od_pointer(t, index, subindex, size)
    IN  IF p = NullPointer THEN t ELSE [t EXCEPT ![p].data = val]

(* The bool overload of od_set. *)
od_set_bool(t, index, subindex, val) ==
    LET p == get_od_pointer(t, index, subindex, 1)
    IN  IF p = NullPointer THEN t ELSE [t EXCEPT ![p].data = IF val = TRUE THEN 1 ELSE 0]

(***************************************************************************)
(* The polling task and the communication reset: timer_rx_thread(),        *)
(* deinit(), co_start(), process() (canopen.cpp).                          *)
(***************************************************************************)
(* nmt_event_t as sent by deinit() and co_start() *)
INITIALIZING        == "INITIALIZING"
RESET_COMMUNICATION == "RESET_COMMUNICATION"

(* nmt_relay_event as if it sent nothing but RESET_COMMUNICATION. *)
RelayOnlyResetCommunication(nmt_event_queue, events, event) ==
    IF nmt_event_queue # 0 /\ event = RESET_COMMUNICATION
    THEN Append(events, event) ELSE events

(* nmt_relay_event: if (nmt_event_queue != 0) xQueueSend(queue, &event, 0); *)
(* events is what was handed to xQueueSend.                                *)
nmt_relay_event(nmt_event_queue, events, event) ==
    IF nmt_event_queue # 0 THEN Append(events, event) ELSE events

DeinitNeverWaits(timer_rx_suspend) == TRUE

(* while (timer_rx_suspend != false) { vTaskDelay(1); } *)
DeinitWaitOver(timer_rx_suspend) == ~(timer_rx_suspend # FALSE)

(* if ((timer_rx_suspend == true) || (globals.get_reboot() == true)) *)
RxMustSuspend(timer_rx_suspend, reboot) == timer_rx_suspend = TRUE \/ reboot = TRUE

(* vTaskResume(handle): a task that is not suspended is left as it is. *)
vTaskResume(rx) == IF rx = "suspended" THEN "resumed" ELSE rx

(***************************************************************************)
(* Inputs.                                                                 *)
(***************************************************************************)
Idents == {385, 641}          \* 0x181, 0x281
Masks  == {2047, 255}         \* 0x7FF, 0x0FF
DataIds == {385, 641, 769}    \* 0x181, 0x281, 0x301
ExtIds  == {385, 2433, 769}   \* 29-bit identifiers: 0x181, 0x981, 0x301
ErrClasses == {CAN_ERR_BUSOFF, CAN_ERR_ACK, CAN_ERR_CRTL,
               CAN_ERR_BUSOFF + CAN_ERR_ACK, CAN_ERR_CRTL + CAN_ERR_ACK, 1}

Frame(id, dlc) == [can_id |-> id, can_dlc |-> dlc]
NoFrame == Frame(W(0, FALSE, FALSE, FALSE), 0)

DataFrames == {Frame(W(i, FALSE, FALSE, FALSE), 8) : i \in DataIds}
RtrFrames  == {Frame(W(i, FALSE, TRUE, FALSE), 0) : i \in DataIds}
ExtFrames  == {Frame(W(i, FALSE, FALSE, TRUE), 8) : i \in ExtIds}
ErrFrames  == {Frame(W(c, TRUE, FALSE, FALSE), 8) : c \in ErrClasses}
(* An error frame whose class bits (0x81: TX timeout, bus error) coincide     *)
(* with the low byte of identifier 0x181.                                    *)
BusErrFrames == {Frame(W(129, TRUE, FALSE, FALSE), 8)}
Frames     == DataFrames \cup RtrFrames \cup ExtFrames \cup ErrFrames \cup BusErrFrames

(* What one poll can meet: <<CANmodule is NULL, can_poll, can_read, frame>>. *)
PollInputs ==
    {<<TRUE, CAN_OK, CAN_OK, NoFrame>>,
     <<FALSE, CAN_ERR_TIMEOUT, CAN_OK, NoFrame>>,
     <<FALSE, CAN_ERR_OTHER, CAN_OK, NoFrame>>,
     <<FALSE, CAN_OK, CAN_ERR_OTHER, NoFrame>>}
    \cup {<<FALSE, CAN_OK, CAN_OK, f>> : f \in Frames}

(* Arguments of a registration:                                            *)
(* <<CANmodule is NULL, index, ident, mask, rtr, object, pFunct>>.         *)
RegInputs ==
    {<<FALSE, i, id, m, FALSE, 1, 1>> : i \in 0 .. RxSize, id \in Idents, m \in Masks}
    \cup {<<FALSE, i, 385, 2047, TRUE, 1, 1>> : i \in 0 .. RxSize}
    \cup {<<TRUE, 0, 385, 2047, FALSE, 1, 1>>,
          <<FALSE, 0, 385, 2047, FALSE, NULL, 1>>,
          <<FALSE, 0, 385, 2047, FALSE, 1, NULL>>}

(* Arguments of an error frame handed to FaultRecovery: <<handler is NULL, frame>>. *)
ErrInputs ==
    {<<FALSE, f>> : f \in ErrFrames}
    \cup {<<TRUE, Frame(W(CAN_ERR_BUSOFF, TRUE, FALSE, FALSE), 8)>>}

(* Sub-indices of 0x1010 and 0x1011 that exist in the object dictionary. *)
SubIndices == 0 .. 7

(* Values an SDO client writes to 0x1010 / 0x1011. *)
Signatures == {SaveSignature, LoadSignature, SaveSignature + 1}

(* Values an SDO client writes to 0x5000 sub 2, and the sub-indices it addresses. *)
SerialValues == {12345678, 2100000034}
SerialSubIndices == {1, 2}

(* Outcome of storage.save per group: all succeed, or one group fails. *)
AllSaved == [g \in Groups |-> TRUE]
SaveFails(f) == [g \in Groups |-> g # f]

(* Accesses to 0x1010: <<reading, subIndex, value written, outcome of save>>. *)
(* The outcome of save varies where the callback can reach storage.save.      *)
StoreInputs ==
    {<<TRUE, s, 0, AllSaved>> : s \in SubIndices}
    \cup {<<FALSE, s, v, AllSaved>> : s \in SubIndices, v \in Signatures}
    \cup {<<FALSE, 1, SaveSignature, SaveFails(f)>> : f \in {PARAMS, TEST, CALIB}}
    \cup {<<FALSE, 3, SaveSignature, SaveFails(PARAMS)>>,
          <<FALSE, 5, SaveSignature, SaveFails(SERIAL)>>,
          <<FALSE, 6, SaveSignature, SaveFails(TEST)>>,
          <<FALSE, 7, SaveSignature, SaveFails(CALIB)>>}

(* Accesses to 0x1011: <<reading, subIndex, value written>>. *)
RestoreInputs ==
    {<<TRUE, s, 0>> : s \in SubIndices}
    \cup {<<FALSE, s, v>> : s \in SubIndices, v \in Signatures}

(* The nid argument of init() at power-on, the node ids the non-volatile    *)
(* memory may hold, and the node ids an LSS master configures.             *)
ExplicitNids   == {0, 5, CO_LSS_NODE_ID_ASSIGNMENT}
PersistedNids  == {0, 5, 127, 128, CO_LSS_NODE_ID_ASSIGNMENT}
ConfiguredNids == {7, CO_LSS_NODE_ID_ASSIGNMENT}

(* LSS frames handled during one poll: none, a switch-state command, or a  *)
(* configure-node-id command.                                              *)
LssEvents ==
    {<<"none", 0>>,
     <<"switch", CO_LSS_STATE_CONFIGURATION>>,
     <<"switch", CO_LSS_STATE_WAITING>>}
    \cup {<<"configure", n>> : n \in ConfiguredNids}

(* Outcome of storage.load per group at start-up. *)
LoadOutcomes == {AllSaved, SaveFails(COMMUNICATION)}

(* Node ids the LSS master asks the device to store. *)
StoreNids == {7, 127}

(* Outcome of storage.load on a communication reset: every group read, or  *)
(* the serial group unreadable.                                            *)
ReloadOutcomes == {AllSaved, SaveFails(SERIAL)}

(* Every combination of readable and unreadable groups. *)
AnyLoadOutcomes == [Groups -> BOOLEAN]

(* A serial number as the production tool stores it; more than eight       *)
(* decimal digits, so that the identity object receives its remainder.     *)
StoredSerial == 212345678

Resets == {CO_RESET_NOT, CO_RESET_COMM, CO_RESET_APP, CO_RESET_QUIT}

(* Entries the typed accessors are called for: 0x1010, 0x5000 and an index  *)
(* the dictionary does not have (0x3000); subindices, sizeof of the         *)
(* accessor's type, and values written.                                    *)
OdIndices  == {4112, 20480, 12288}
OdSubs     == {1, 2, 3}
TypeSizes  == {1, 2, 4, 8}
SetValues  == {0, 9}

(* Memory the driver never writes before reading it: the mask of a slot    *)
(* that was allocated but not registered.                                  *)
UninitMasks == {W(0, FALSE, FALSE, FALSE), W(SffBits, FALSE, TRUE, TRUE)}

(***************************************************************************)
(* History of no-ACK runs: a run begins with the counter at zero and       *)
(* grows with every error frame that carries the ACK error and no bus-off; *)
(* when such a frame triggers the reset, the next one begins a new run.    *)
(* -1 marks a run that began with a nonzero counter.                       *)
(***************************************************************************)
IsNoackFrame(msg) ==
    /\ BitAnd(msg.can_id.low, CAN_ERR_ACK) # 0
    /\ BitAnd(msg.can_id.low, CAN_ERR_BUSOFF) = 0

RunRestart(h) == IF h.noackCounter = 0 THEN 0 ELSE -1

RunNext(r, resets) ==
    IF r = -1 THEN (IF resets > 0 THEN 0 ELSE -1)
    ELSE IF r > NoackThreshold THEN 1
    ELSE r + 1

(***************************************************************************)
(* Initial state: handler initialised, table allocated and initialised.    *)
(***************************************************************************)
FreshSlot(m) ==
    [ident |-> W(0, FALSE, FALSE, FALSE), mask |-> m, object |-> NULL, pFunct |-> NULL]

(* The object dictionary after od_set_defaults() on a device whose serial   *)
(* number was never stored.                                                *)
InitOd ==
    [serialNumber |-> [valid |-> FALSE, serial |-> Uid],
     identity |-> [serialNumber |-> Uid],
     storeParameters |-> [s \in SubIndices |-> IF s = 0 THEN 7 ELSE 1],
     restoreDefaultParameters |-> [s \in SubIndices |-> IF s = 0 THEN 7 ELSE 1],
     CANNodeID |-> 0,
     image |-> DefaultImage]

InitCo ==
    [pc |-> "reset", nid |-> 0, pending_nid |-> 0,
     active_nid |-> CO_LSS_NODE_ID_ASSIGNMENT,
     lss |-> CO_LSSinit(0),
     once |-> FALSE]

(* 0x1010 sub 1 (u32), 0x5000 sub 1 (valid, one byte) and sub 2 (serial, u32). *)
InitOdt ==
    [k \in {<<4112, 1>>, <<20480, 1>>, <<20480, 2>>} |->
        IF k = <<4112, 1>> THEN [length |-> 4, data |-> 1]
        ELSE IF k = <<20480, 1>> THEN [length |-> 1, data |-> 1]
        ELSE [length |-> 4, data |-> Uid]]

(* No transmit descriptor marked full, as CO_CANmodule_init leaves them. *)
InitTx == [i \in TxSlots |-> [bufferFull |-> FALSE]]

(* Power-on: the main task is about to call init(); the polling task has   *)
(* not been created.                                                       *)
InitTh ==
    [main |-> "init", rx |-> "none", timer_rx_suspend |-> FALSE,
     timer_rx_handle |-> NULL, reboot |-> FALSE, reset |-> CO_RESET_NOT,
     window |-> FALSE, resets |-> 0,
     nmt_event_queue |-> 0, nmtCallback |-> FALSE, events |-> <<>>]

(* No store-configuration command in progress, no shift-in event yet. *)
InitDc ==
    [pc |-> "idle", nid |-> 0, active_nid |-> 0, shiftIn |-> 0, sent |-> <<>>,
     active |-> 0]

(* The socket after CO_CANerror_init: link up, nothing received. *)
InitSock ==
    [pc |-> "idle", link |-> "up", queue |-> <<>>, next |-> 1, entered |-> 0,
     stale |-> {}, dropped |-> {}, handled |-> {}]

InitCommon ==
    /\ txArray = InitTx
    /\ th = InitTh
    /\ odt = InitOdt
    /\ sock = InitSock
    /\ dc = InitDc
    /\ eh = CO_CANerror_init(FALSE, [listenOnly |-> FALSE])
    /\ now = 0
    /\ rxSize = RxSize
    /\ txCount = 0
    /\ run = 0
    /\ od = InitOd
    /\ storage = [saved |-> {}, serial |-> [valid |-> FALSE, serial |-> 0],
                  nid |-> 0, restore |-> {}, image |-> DefaultImage]
    /\ co = InitCo
    /\ hist = [housekeeping |-> 0, polls |-> 0, serialStores |-> 0, persisted |-> -1,
               queued |-> 0]
    /\ last = [op |-> "init"]

Init ==
    /\ InitCommon
    /\ rxArray \in [Slots -> {FreshSlot(m) : m \in UninitMasks}]

(* The table as zero-filled memory. *)
InitFault ==
    /\ InitCommon
    /\ rxArray = [i \in Slots |-> FreshSlot(W(0, FALSE, FALSE, FALSE))]

(* A device at power-on whose non-volatile memory holds no communication   *)
(* group, or one with some node id in it.                                  *)
InitNegotiate ==
    /\ txArray = InitTx
    /\ th = InitTh
    /\ odt = InitOdt
    /\ sock = InitSock
    /\ dc = InitDc
    /\ eh = CO_CANerror_init(FALSE, [listenOnly |-> FALSE])
    /\ now = 0
    /\ rxSize = RxSize
    /\ rxArray = [i \in Slots |-> FreshSlot(W(0, FALSE, FALSE, FALSE))]
    /\ txCount = 0
    /\ run = 0
    /\ od = InitOd
    /\ storage \in
          {[saved |-> {}, serial |-> [valid |-> FALSE, serial |-> 0],
            nid |-> 0, restore |-> {}, image |-> DefaultImage]}
          \cup {[saved |-> {COMMUNICATION}, serial |-> [valid |-> FALSE, serial |-> 0],
                 nid |-> n, restore |-> {}, image |-> DefaultImage] : n \in PersistedNids}
    /\ co = InitCo
    /\ hist = [housekeeping |-> 0, polls |-> 0, serialStores |-> 0, persisted |-> -1,
               queued |-> 0]
    /\ last = [op |-> "init"]

(* A device at power-on whose non-volatile memory is blank, or holds all    *)
(* six groups, with or without a restoration of PARAMS scheduled.          *)
LoadStorages ==
    {[saved |-> {}, serial |-> [valid |-> FALSE, serial |-> 0],
      nid |-> 0, restore |-> {}, image |-> DefaultImage]}
    \cup {[saved |-> Groups, serial |-> [valid |-> v, serial |-> StoredSerial],
           nid |-> n, restore |-> r, image |-> StoredImage] :
              v \in BOOLEAN, n \in {5, 127}, r \in {{}, {PARAMS}}}

InitLoad ==
    /\ txArray = InitTx
    /\ th = InitTh
    /\ odt = InitOdt
    /\ sock = InitSock
    /\ dc = InitDc
    /\ eh = CO_CANerror_init(FALSE, [listenOnly |-> FALSE])
    /\ now = 0
    /\ rxSize = RxSize
    /\ rxArray = [i \in Slots |-> FreshSlot(W(0, FALSE, FALSE, FALSE))]
    /\ txCount = 0
    /\ run = 0
    /\ od = InitOd
    /\ storage \in LoadStorages
    /\ co = InitCo
    /\ hist = [housekeeping |-> 0, polls |-> 0, serialStores |-> 0, persisted |-> -1,
               queued |-> 0]
    /\ last = [op |-> "init"]

(* A node that runs with an active node id, which OD_CANNodeID holds. *)
InitDaisy ==
    /\ txArray = InitTx
    /\ th = InitTh
    /\ odt = InitOdt
    /\ sock = InitSock
    /\ eh = CO_CANerror_init(FALSE, [listenOnly |-> FALSE])
    /\ now = 0
    /\ rxSize = RxSize
    /\ rxArray = [i \in Slots |-> FreshSlot(W(0, FALSE, FALSE, FALSE))]
    /\ txCount = 0
    /\ run = 0
    /\ \E n \in {5, 127} :
          /\ od = [InitOd EXCEPT !.CANNodeID = n]
          /\ storage = [saved |-> {COMMUNICATION},
                        serial |-> [valid |-> FALSE, serial |-> 0],
                        nid |-> n, restore |-> {}, image |-> DefaultImage]
          /\ co = [InitCo EXCEPT !.nid = n, !.pending_nid = n, !.active_nid = n,
                                 !.pc = "running"]
          /\ dc = [InitDc EXCEPT !.active = n]
    /\ hist = [housekeeping |-> 0, polls |-> 0, serialStores |-> 0, persisted |-> -1,
               queued |-> 0]
    /\ last = [op |-> "init"]

(***************************************************************************)
(* FaultRecovery operations.                                               *)
(***************************************************************************)
Tick ==
    /\ now < MaxSec * TicksPerSec
    /\ now' = now + 1
    /\ last' = [op |-> "tick"]
    /\ UNCHANGED <<eh, rxArray, rxSize, txCount, run, od, storage, co, hist, txArray, th, odt, sock, dc>>

ErrorInit ==
    \E isNull \in BOOLEAN :
        /\ eh' = CO_CANerror_init(isNull, eh)
        /\ last' = [op |-> "CO_CANerror_init", isNull |-> isNull]
        /\ run' = IF isNull THEN run ELSE RunRestart(eh')
        /\ UNCHANGED <<now, rxArray, rxSize, txCount, od, storage, co, hist, txArray, th, odt, sock, dc>>

ErrorDisable ==
    \E isNull \in BOOLEAN :
        /\ eh' = CO_CANerror_disable(isNull, eh)
        /\ last' = [op |-> "CO_CANerror_disable", isNull |-> isNull]
        /\ run' = IF isNull THEN run ELSE RunRestart(eh')
        /\ UNCHANGED <<now, rxArray, rxSize, txCount, od, storage, co, hist, txArray, th, odt, sock, dc>>

RxMsg ==
    \E isNull \in BOOLEAN :
        /\ eh' = CO_CANerror_rxMsg(isNull, eh)
        /\ last' = [op |-> "CO_CANerror_rxMsg", isNull |-> isNull, pre |-> eh]
        /\ run' = IF isNull THEN run ELSE RunRestart(eh')
        /\ UNCHANGED <<now, rxArray, rxSize, txCount, od, storage, co, hist, txArray, th, odt, sock, dc>>

TxMsg ==
    \E isNull \in BOOLEAN :
        LET r == CO_CANerror_txMsg(isNull, eh, now)
        IN  /\ eh' = r.h
            /\ last' = [op |-> "CO_CANerror_txMsg", isNull |-> isNull, pre |-> eh,
                        res |-> r.result]
            /\ UNCHANGED <<now, rxArray, rxSize, txCount, run, od, storage, co, hist, txArray, th, odt, sock, dc>>

RxMsgError ==
    \E i \in ErrInputs :
        LET isNull == i[1]
            msg == i[2]
            r == CO_CANerror_rxMsgError(isNull, eh, msg, now)
        IN  /\ eh' = r.h
            /\ last' = [op |-> "CO_CANerror_rxMsgError", isNull |-> isNull,
                        pre |-> eh, msg |-> msg,
                        res |-> r.result, resets |-> r.resets]
            /\ run' = IF isNull THEN run
                      ELSE IF IsNoackFrame(msg) THEN RunNext(run, r.resets)
                      ELSE RunRestart(eh')
            /\ UNCHANGED <<now, rxArray, rxSize, txCount, od, storage, co, hist, txArray, th, odt, sock, dc>>

(***************************************************************************)
(* CO_CANerrorResetIf command by command, next to the socket: frames       *)
(* arrive while the link is up, and the receive path reads them when       *)
(* CO_CANerrorResetIf is not running (both run on the same thread).        *)
(***************************************************************************)
SockLast(op) == [op |-> op, pre |-> eh]

(* A frame from the bus enters the receive queue of the socket. *)
SockArrive ==
    /\ sock.link = "up"
    /\ sock.next <= MaxFrames
    /\ Len(sock.queue) < SockQueueSize
    /\ sock' = [sock EXCEPT !.queue = Append(@, sock.next), !.next = @ + 1]
    /\ last' = SockLast("arrive")
    /\ UNCHANGED <<eh, now, rxArray, rxSize, txCount, run, od, storage, co, hist,
                   txArray, th, odt, dc>>

(* The receive path reads a data frame and reports it: CO_CANerror_rxMsg. *)
SockRead ==
    /\ sock.pc = "idle"
    /\ sock.queue # <<>>
    /\ sock' = [sock EXCEPT !.queue = Tail(@), !.handled = @ \cup {Head(sock.queue)}]
    /\ eh' = CO_CANerror_rxMsg(FALSE, eh)
    /\ last' = SockLast("CO_CANerror_rxMsg")
    /\ UNCHANGED <<now, rxArray, rxSize, txCount, run, od, storage, co, hist,
                   txArray, th, odt, dc>>

(* CO_CANerrorResetIf is entered for a bus-off frame:                      *)
(* clock_gettime(&timestamp); listenOnly = true.                           *)
ResetIfEnter ==
    /\ sock.pc = "idle"
    /\ eh' = CO_CANerrorResetIf(eh, now).h
    /\ sock' = [sock EXCEPT !.pc = "down", !.entered = now]
    /\ last' = SockLast("CO_CANerrorResetIf")
    /\ UNCHANGED <<now, rxArray, rxSize, txCount, run, od, storage, co, hist,
                   txArray, th, odt, dc>>

(* system("ip link set <if> down"); the frames in the queue at this moment *)
(* are those received before the reset.                                   *)
ResetIfLinkDown ==
    /\ sock.pc = "down"
    /\ sock' = [sock EXCEPT !.pc = "drain", !.link = "down",
                            !.stale = {sock.queue[i] : i \in 1 .. Len(sock.queue)}]
    /\ last' = SockLast("link_down")
    /\ UNCHANGED <<eh, now, rxArray, rxSize, txCount, run, od, storage, co, hist,
                   txArray, th, odt, dc>>

(* while (recv(fd, &dummy, sizeof(dummy), MSG_DONTWAIT) > 0) i++; *)
ResetIfRecv ==
    /\ sock.pc = "drain"
    /\ LET r == recv(sock.queue)
       IN  sock' = IF r.n > 0
                   THEN [sock EXCEPT !.queue = r.queue, !.dropped = @ \cup {r.frame}]
                   ELSE [sock EXCEPT !.pc = "up"]
    /\ last' = SockLast("recv")
    /\ UNCHANGED <<eh, now, rxArray, rxSize, txCount, run, od, storage, co, hist,
                   txArray, th, odt, dc>>

(* system("ip link set <if> up"); return CO_INTERFACE_LISTEN_ONLY *)
ResetIfLinkUp ==
    /\ sock.pc = "up"
    /\ sock' = [sock EXCEPT !.pc = "idle", !.link = "up"]
    /\ last' = SockLast("link_up")
    /\ UNCHANGED <<eh, now, rxArray, rxSize, txCount, run, od, storage, co, hist,
                   txArray, th, odt, dc>>

(***************************************************************************)
(* store_lss_config_callback between its critical sections, next to        *)
(* daisychain_event_callback, which another task calls.                    *)
(***************************************************************************)
DcFrame == UNCHANGED <<eh, now, rxArray, rxSize, txCount, run, co, hist, txArray, th,
                       odt, sock>>

(* CO_LOCK_OD(); active_nid = OD_CANNodeID; OD_CANNodeID = nid; CO_UNLOCK_OD() *)
StoreCfgEnter ==
    /\ dc.pc = "idle"
    /\ \E nid \in StoreNids :
          /\ dc' = [dc EXCEPT !.pc = "save", !.nid = nid, !.active_nid = od.CANNodeID]
          /\ od' = [od EXCEPT !.CANNodeID = nid]
          /\ last' = [op |-> "store_lss_config_enter", nid |-> nid]
    /\ UNCHANGED storage /\ DcFrame

(* result = storage.save(COMMUNICATION); if (result == CO_ERROR_NO) return true *)
StoreCfgSave ==
    /\ dc.pc = "save"
    /\ \E ok \in {AllSaved, SaveFails(COMMUNICATION)} :
          /\ storage' = StorageSave(storage, COMMUNICATION, od, ok)
          /\ dc' = [dc EXCEPT !.pc = IF ok[COMMUNICATION] THEN "idle" ELSE "restore"]
          /\ last' = [op |-> "store_lss_config_save", nid |-> dc.nid]
    /\ UNCHANGED od /\ DcFrame

(* CO_LOCK_OD(); OD_CANNodeID = active_nid; CO_UNLOCK_OD(); return false *)
StoreCfgRestore ==
    /\ dc.pc = "restore"
    /\ od' = [od EXCEPT !.CANNodeID = dc.active_nid]
    /\ dc' = [dc EXCEPT !.pc = "idle"]
    /\ last' = [op |-> "store_lss_config_restore", nid |-> dc.nid]
    /\ UNCHANGED storage /\ DcFrame

(* daisychain_event_callback: under the lock shiftIn is incremented and    *)
(* OD_CANNodeID read; CO_DaisyProducer_sendEvent(shift_count, nid).        *)
DaisyEvent ==
    /\ dc.shiftIn < MaxShifts
    /\ dc' = [dc EXCEPT !.shiftIn = @ + 1, !.sent = <<dc.shiftIn + 1, od.CANNodeID>>]
    /\ last' = [op |-> "daisychain_event_callback", nid |-> od.CANNodeID,
                during |-> dc.pc]
    /\ UNCHANGED <<od, storage>> /\ DcFrame

(***************************************************************************)
(* Transmit path.                                                          *)
(***************************************************************************)
Send ==
    \E moduleNull \in BOOLEAN, bufferNull \in BOOLEAN :
        LET r == CO_CANsend(moduleNull, bufferNull, eh, now, txCount)
        IN  /\ txCount' = r.q
            /\ eh' = r.h
            /\ last' = [op |-> "CO_CANsend", res |-> r.res, written |-> r.written,
                        wasListenOnly |-> eh.listenOnly,
                        valid |-> ~moduleNull /\ ~bufferNull,
                        q |-> txCount]
            /\ hist' = [hist EXCEPT !.queued = IF r.written THEN @ + 1 ELSE @]
            /\ UNCHANGED <<now, rxArray, rxSize, run, od, storage, co, txArray, th, odt, sock, dc>>

(* The hardware puts a queued frame on the bus. *)
TxDrain ==
    /\ txCount > 0
    /\ txCount' = txCount - 1
    /\ hist' = [hist EXCEPT !.queued = @ - 1]
    /\ last' = [op |-> "txDrain"]
    /\ UNCHANGED <<eh, now, rxArray, rxSize, run, od, storage, co, txArray, th, odt, sock, dc>>

(***************************************************************************)
(* Receive table and poll.                                                 *)
(***************************************************************************)
ModuleInit ==
    /\ rxArray' = CO_CANmodule_init(rxArray, rxSize)
    /\ txArray' = CO_CANmodule_init_tx(txArray)
    /\ last' = [op |-> "CO_CANmodule_init"]
    /\ UNCHANGED <<eh, now, rxSize, txCount, run, od, storage, co, hist, th, odt, sock, dc>>

RxBufferInit ==
    \E a \in RegInputs :
        LET r == CO_CANrxBufferInit(rxArray, rxSize, a[1], a[2], a[3], a[4], a[5],
                                    a[6], a[7])
        IN  /\ rxArray' = r.arr
            /\ last' = [op |-> "CO_CANrxBufferInit", index |-> a[2], res |-> r.res,
                        valid |-> ~a[1] /\ a[6] # NULL /\ a[7] # NULL,
                        changed |-> r.arr # rxArray]
            /\ UNCHANGED <<eh, now, rxSize, txCount, run, od, storage, co, hist, txArray, th, odt, sock, dc>>

RxWait ==
    \E i \in PollInputs :
        LET r == CO_CANrxWait(i[1], rxArray, rxSize, i[2], i[3], i[4], eh, now)
        IN  /\ eh' = r.h
            /\ last' = [op |-> "CO_CANrxWait", res |-> r.res, invoked |-> r.invoked,
                        read |-> r.read, frame |-> i[4],
                        poll |-> i[2], canRead |-> i[3], moduleNull |-> i[1]]
            /\ UNCHANGED <<now, rxArray, rxSize, txCount, run, od, storage, co, hist, txArray, th, odt, sock, dc>>

(***************************************************************************)
(* ParameterStore: SDO accesses to 0x1010, 0x1011 and 0x5000.              *)
(***************************************************************************)
StoreLast(op, reading, subIndex, written, stored, cb) ==
    [op |-> op, reading |-> reading, subIndex |-> subIndex, written |-> written,
     stored |-> stored, data |-> cb.data, abort |-> cb.abort, saves |-> cb.saves,
     pre |-> od, preStorage |-> storage]

SdoStoreParameters ==
    \E a \in StoreInputs :
        LET reading == a[1]
            s == a[2]
            v == a[3]
            ok == a[4]
            stored == od.storeParameters[s]
            cb == store_parameters_callback(reading, s, v, stored, od, storage, ok)
        IN  /\ od' = IF reading THEN cb.od
                     ELSE [cb.od EXCEPT !.storeParameters[s] = CO_SDO_writeOD(stored, cb)]
            /\ storage' = cb.storage
            /\ last' = StoreLast("store_parameters_callback", reading, s, v, stored, cb)
            /\ hist' = [hist EXCEPT !.serialStores =
                            IF ~reading /\ s = 5 /\ cb.abort = CO_SDO_AB_NONE /\ @ < 2
                            THEN @ + 1 ELSE @]
            /\ UNCHANGED <<eh, now, rxArray, rxSize, txCount, run, co, txArray, th, odt, sock, dc>>

SdoRestoreDefaultParameters ==
    \E a \in RestoreInputs :
        LET reading == a[1]
            s == a[2]
            v == a[3]
            stored == od.restoreDefaultParameters[s]
            cb == restore_default_parameters_callback(reading, s, v, stored, od, storage)
        IN  /\ od' = IF reading THEN cb.od
                     ELSE [cb.od EXCEPT !.restoreDefaultParameters[s] =
                                           CO_SDO_writeOD(stored, cb)]
            /\ storage' = cb.storage
            /\ last' = StoreLast("restore_default_parameters_callback", reading, s, v,
                                 stored, cb)
            /\ UNCHANGED <<eh, now, rxArray, rxSize, txCount, run, co, hist, txArray, th, odt, sock, dc>>

SdoSerialNumber ==
    \E reading \in BOOLEAN, s \in SerialSubIndices, v \in SerialValues :
        LET stored == IF s = 2 THEN od.serialNumber.serial
                      ELSE IF od.serialNumber.valid THEN 1 ELSE 0
            cb == serial_number_callback(reading, s, v, stored, od, storage)
        IN  /\ od' = IF ~reading /\ s = 2
                     THEN [cb.od EXCEPT !.serialNumber.serial = CO_SDO_writeOD(stored, cb)]
                     ELSE cb.od
            /\ storage' = cb.storage
            /\ last' = StoreLast("serial_number_callback", reading, s, v, stored, cb)
            /\ UNCHANGED <<eh, now, rxArray, rxSize, txCount, run, co, hist, txArray, th, odt, sock, dc>>

(* A communication reset as far as the parameter groups see it: init()     *)
(* calls od_set_defaults() and od_load_start() before anything else; the   *)
(* address negotiation that follows writes none of the entries of 0x1010,  *)
(* 0x1011, 0x1018 and 0x5000.                                              *)
ReloadOnReset ==
    \E loadOk \in ReloadOutcomes :
        /\ od' = od_load_start(od_set_defaults(od), storage, loadOk)
        /\ last' = [op |-> "reload_on_reset", pre |-> od, preStorage |-> storage,
                    loaded |-> StorageLoad(storage, SERIAL, loadOk)]
        /\ UNCHANGED <<eh, now, rxArray, rxSize, txCount, run, storage, co, hist,
                       txArray, th, odt, sock, dc>>

(***************************************************************************)
(* AddressNegotiator: the main task in init() and process().               *)
(***************************************************************************)
Counted(n) == IF n < MaxLoops THEN n + 1 ELSE n

(* The application calls init(nid, interval) after power-on. *)
InitCall ==
    /\ co.pc = "reset"
    /\ \E nid \in ExplicitNids, loadOk \in LoadOutcomes, initOk \in BOOLEAN :
          LET r == InitEntry(co, od, storage, nid, loadOk, initOk)
          IN  /\ od' = r.od
              /\ co' = r.co
              /\ hist' = [hist EXCEPT !.housekeeping = 0, !.polls = 0,
                                      !.persisted = r.persisted]
              /\ last' = [op |-> "Canopen_init", prePc |-> co.pc, reset |-> CO_RESET_NOT]
    /\ UNCHANGED <<eh, now, rxArray, rxSize, txCount, run, storage, txArray, th, odt, sock, dc>>

(* init() at power-on with any outcome of the six loads; the groups whose  *)
(* load failed are recorded.                                               *)
InitPowerOn ==
    /\ co.pc = "reset"
    /\ \E nid \in ExplicitNids, loadOk \in AnyLoadOutcomes, initOk \in BOOLEAN :
          LET r == InitEntry(co, od, storage, nid, loadOk, initOk)
          IN  /\ od' = r.od
              /\ co' = r.co
              /\ hist' = [hist EXCEPT !.housekeeping = 0, !.polls = 0,
                                      !.persisted = r.persisted]
              /\ last' = [op |-> "init_power_on", prePc |-> co.pc,
                          reset |-> CO_RESET_NOT, initOk |-> initOk,
                          failed |-> {g \in Groups : ~StorageLoad(storage, g, loadOk)}]
    /\ UNCHANGED <<eh, now, rxArray, rxSize, txCount, run, storage, txArray, th, odt, sock, dc>>

(* The LSS slave, processing a store-configuration command, calls the      *)
(* callback registered by co_init.                                         *)
LssStoreConfig ==
    /\ co.pc \in {"lss_process", "running"}
    /\ \E nid \in StoreNids, ok \in {AllSaved, SaveFails(COMMUNICATION)} :
          LET r == store_lss_config_callback(nid, od, storage, ok)
          IN  /\ od' = r.od
              /\ storage' = r.storage
              /\ last' = [op |-> "store_lss_config_callback", prePc |-> co.pc,
                          reset |-> CO_RESET_NOT, nid |-> nid, res |-> r.res,
                          pre |-> od]
    /\ UNCHANGED <<eh, now, rxArray, rxSize, txCount, run, co, hist, txArray, th, odt, sock, dc>>

(* lss_nid_assignment: CO_LSSslave_process and the test that ends the loop. *)
LssNidAssignment ==
    /\ co.pc = "lss_process"
    /\ LET p == CO_LSSslave_process(co.lss)
       IN  co' = [co EXCEPT !.pending_nid = p,
                           !.pc = IF LssAssigned(p, co.lss.state)
                                  THEN "co_start" ELSE "housekeeping"]
    /\ last' = [op |-> "lss_nid_assignment", prePc |-> co.pc, reset |-> CO_RESET_NOT]
    /\ UNCHANGED <<eh, now, rxArray, rxSize, txCount, run, od, storage, hist, txArray, th, odt, sock, dc>>

(* The loop as if it went from the test straight to the poll. *)
HousekeepingNotCalled ==
    /\ co.pc = "housekeeping"
    /\ co' = [co EXCEPT !.pc = "poll"]
    /\ last' = [op |-> "housekeeping_main", prePc |-> co.pc, reset |-> CO_RESET_NOT]
    /\ UNCHANGED <<eh, now, rxArray, rxSize, txCount, run, od, storage, hist, txArray,
                   th, odt, sock, dc>>

(* lss_nid_assignment: housekeeping_main() *)
HousekeepingMain ==
    /\ co.pc = "housekeeping"
    /\ co' = [co EXCEPT !.pc = "poll"]
    /\ hist' = [hist EXCEPT !.housekeeping = Counted(@)]
    /\ last' = [op |-> "housekeeping_main", prePc |-> co.pc, reset |-> CO_RESET_NOT]
    /\ UNCHANGED <<eh, now, rxArray, rxSize, txCount, run, od, storage, txArray, th, odt, sock, dc>>

(* lss_nid_assignment: (void)CO_CANrxWait(CO->CANmodule[0], main_interval); *)
(* a frame it dispatches may be an LSS command.                             *)
NegotiationPoll ==
    /\ co.pc = "poll"
    /\ \E ev \in LssEvents :
          co' = [co EXCEPT !.lss = LssAfter(@, ev), !.pc = "lss_process"]
    /\ hist' = [hist EXCEPT !.polls = Counted(@)]
    /\ last' = [op |-> "CO_CANrxWait", prePc |-> co.pc, reset |-> CO_RESET_NOT]
    /\ UNCHANGED <<eh, now, rxArray, rxSize, txCount, run, od, storage, txArray, th, odt, sock, dc>>

(* co_start and the rest of init(): CO_CANopenInit, *p_active_nid, the     *)
(* receive task, and on the first start the power-on counter.              *)
CoStart ==
    /\ co.pc = "co_start"
    /\ \E openOk \in BOOLEAN, taskOk \in BOOLEAN, ok \in {AllSaved, SaveFails(RUNTIME)} :
          /\ (co.once \/ ~openOk) => taskOk
          /\ (co.once \/ ~openOk \/ ~taskOk) => ok = AllSaved
          /\ IF ~openOk
             THEN co' = [co EXCEPT !.pc = "failed"] /\ storage' = storage
             ELSE IF ~taskOk
             THEN /\ co' = [co EXCEPT !.active_nid = co.pending_nid, !.pc = "failed"]
                  /\ storage' = storage
             ELSE /\ co' = [co EXCEPT !.active_nid = co.pending_nid, !.pc = "running",
                                      !.once = TRUE]
                  /\ storage' = IF co.once # TRUE
                                THEN StorageSave(storage, RUNTIME, od, ok) ELSE storage
    /\ last' = [op |-> "co_start", prePc |-> co.pc, reset |-> CO_RESET_NOT]
    /\ UNCHANGED <<eh, now, rxArray, rxSize, txCount, run, od, hist, txArray, th, odt, sock, dc>>

(* The receive task handles an LSS command while the node runs. *)
LssReceive ==
    /\ co.pc = "running"
    /\ \E ev \in LssEvents \ {<<"none", 0>>} :
          /\ LssAfter(co.lss, ev) # co.lss
          /\ co' = [co EXCEPT !.lss = LssAfter(@, ev)]
    /\ last' = [op |-> "lss_receive", prePc |-> co.pc, reset |-> CO_RESET_NOT]
    /\ UNCHANGED <<eh, now, rxArray, rxSize, txCount, run, od, storage, hist, txArray, th, odt, sock, dc>>

(* process(): threadMain_process reports a reset request. *)
Process ==
    /\ co.pc = "running"
    /\ \E reset \in Resets, loadOk \in LoadOutcomes, initOk \in BOOLEAN :
          /\ reset # CO_RESET_COMM => (loadOk = AllSaved /\ initOk)
          /\ last' = [op |-> "process", prePc |-> co.pc, reset |-> reset]
          /\ IF reset = CO_RESET_COMM
             THEN LET p == CO_LSSslave_process(co.lss)
                      r == InitEntry(deinit(co), od, storage, p, loadOk, initOk)
                  IN  /\ od' = r.od
                      /\ co' = r.co
                      /\ hist' = [hist EXCEPT !.housekeeping = 0, !.polls = 0,
                                              !.persisted = r.persisted]
             ELSE IF reset = CO_RESET_APP
             THEN co' = [co EXCEPT !.pc = "reboot"] /\ UNCHANGED <<od, hist>>
             ELSE IF reset = CO_RESET_QUIT
             THEN co' = [deinit(co) EXCEPT !.pc = "quit"] /\ UNCHANGED <<od, hist>>
             ELSE UNCHANGED <<co, od, hist>>
    /\ UNCHANGED <<eh, now, rxArray, rxSize, txCount, run, storage, txArray, th, odt, sock, dc>>

(***************************************************************************)
(* Typed accessors called by the application.                              *)
(***************************************************************************)
OdFrame == UNCHANGED <<eh, now, rxArray, rxSize, txCount, run, od, storage, co, hist,
                       txArray, th, sock, dc>>

OdGet ==
    \E index \in OdIndices, subindex \in OdSubs, size \in TypeSizes :
        /\ last' = [op |-> "od_get", index |-> index, subindex |-> subindex,
                    size |-> size, res |-> od_get(odt, index, subindex, size),
                    pre |-> odt]
        /\ UNCHANGED odt /\ OdFrame

OdGetBool ==
    \E index \in OdIndices, subindex \in OdSubs :
        /\ last' = [op |-> "od_get_bool", index |-> index, subindex |-> subindex,
                    size |-> 1, res |-> od_get_bool(odt, index, subindex),
                    pre |-> odt]
        /\ UNCHANGED odt /\ OdFrame

OdSet ==
    \E index \in OdIndices, subindex \in OdSubs, size \in TypeSizes, val \in SetValues :
        /\ odt' = od_set(odt, index, subindex, size, val)
        /\ last' = [op |-> "od_set", index |-> index, subindex |-> subindex,
                    size |-> size, res |-> val, pre |-> odt]
        /\ OdFrame

OdSetBool ==
    \E index \in OdIndices, subindex \in OdSubs, val \in BOOLEAN :
        /\ odt' = od_set_bool(odt, index, subindex, val)
        /\ last' = [op |-> "od_set_bool", index |-> index, subindex |-> subindex,
                    size |-> 1, res |-> val, pre |-> odt]
        /\ OdFrame

(***************************************************************************)
(* The polling task next to the main task during a reset.                  *)
(***************************************************************************)
ThLast(op) == [op |-> op, preMain |-> th.main, preRx |-> th.rx]
ThFrame == UNCHANGED <<eh, now, rxArray, rxSize, txCount, run, od, storage, hist,
                       txArray, odt, sock, dc>>

(* timer_rx_thread: CANrx_threadTmr_process() returns. *)
RxProcess ==
    /\ th.rx = "process"
    /\ th' = [th EXCEPT !.rx = "test"]
    /\ last' = ThLast("CANrx_threadTmr_process")
    /\ UNCHANGED co /\ ThFrame

(* timer_rx_thread: the test of line 781; the loop goes on with            *)
(* wdt_trigger and CANrx_threadTmr_process when it fails.                  *)
RxTest ==
    /\ th.rx = "test"
    /\ th' = [th EXCEPT !.rx = IF RxMustSuspend(th.timer_rx_suspend, th.reboot)
                                THEN "clear" ELSE "process"]
    /\ last' = ThLast("timer_rx_test")
    /\ UNCHANGED co /\ ThFrame

(* timer_rx_thread: timer_rx_suspend = false; wdt_pause(wdt) *)
RxClear ==
    /\ th.rx = "clear"
    /\ th' = [th EXCEPT !.timer_rx_suspend = FALSE, !.rx = "suspend"]
    /\ last' = ThLast("timer_rx_clear")
    /\ UNCHANGED co /\ ThFrame

(* timer_rx_thread: vTaskSuspend(NULL) *)
RxSuspend ==
    /\ th.rx = "suspend"
    /\ th' = [th EXCEPT !.rx = "suspended"]
    /\ last' = ThLast("vTaskSuspend")
    /\ UNCHANGED co /\ ThFrame

(* timer_rx_thread: wdt_resume(wdt) after the task was resumed; the loop    *)
(* goes on with wdt_trigger and CANrx_threadTmr_process.                   *)
RxResumed ==
    /\ th.rx = "resumed"
    /\ th' = [th EXCEPT !.rx = "process"]
    /\ last' = ThLast("wdt_resume")
    /\ UNCHANGED co /\ ThFrame

(* Some part of the firmware calls globals.request_reboot(). *)
RequestReboot ==
    /\ th.reboot = FALSE
    /\ th' = [th EXCEPT !.reboot = TRUE]
    /\ last' = ThLast("request_reboot")
    /\ UNCHANGED co /\ ThFrame

(* nmt_register(event_queue), called by the application while the stack    *)
(* runs: the queue is kept and the NMT callback of the stack is set.       *)
NmtRegister ==
    /\ th.main = "idle"
    /\ th.nmt_event_queue = 0
    /\ th' = [th EXCEPT !.nmt_event_queue = 1, !.nmtCallback = TRUE]
    /\ last' = ThLast("nmt_register")
    /\ UNCHANGED co /\ ThFrame

(* process(): threadMain_process reports a reset; for CO_RESET_COMM and     *)
(* CO_RESET_QUIT deinit() is entered and sets timer_rx_suspend.            *)
ProcessReset ==
    /\ th.main = "idle"
    /\ th.resets < MaxResets
    /\ \E reset \in Resets \ {CO_RESET_NOT} :
          th' = IF reset = CO_RESET_APP
                THEN [th EXCEPT !.reboot = TRUE, !.resets = @ + 1]
                ELSE [th EXCEPT !.timer_rx_suspend = TRUE, !.main = "deinit_wait",
                                !.reset = reset, !.resets = @ + 1, !.events = <<>>]
    /\ last' = ThLast("process")
    /\ UNCHANGED co /\ ThFrame

(* deinit(): the wait for the polling task ends. *)
DeinitWait ==
    /\ th.main = "deinit_wait"
    /\ DeinitWaitOver(th.timer_rx_suspend)
    /\ th' = [th EXCEPT !.main = "delete", !.window = TRUE]
    /\ last' = ThLast("deinit_wait")
    /\ UNCHANGED co /\ ThFrame

(* deinit(): nmt_relay_event, CO_delete, *p_active_nid = 0; process() then  *)
(* calls init() for CO_RESET_COMM and returns for CO_RESET_QUIT.           *)
DeinitDelete ==
    /\ th.main = "delete"
    /\ th' = [th EXCEPT !.main = IF th.reset = CO_RESET_COMM THEN "init" ELSE "quit",
                          !.events = nmt_relay_event(th.nmt_event_queue, @, INITIALIZING),
                          !.nmtCallback = FALSE]
    /\ co' = deinit(co)
    /\ last' = ThLast("CO_delete")
    /\ ThFrame

(* init() up to the start of the polling task in co_start(); when it fails, *)
(* process() requests a reboot.                                            *)
ReInit ==
    /\ th.main = "init"
    /\ \E ok \in BOOLEAN :
          th' = IF ok THEN [th EXCEPT !.main = "start"]
                ELSE IF th.reset = CO_RESET_COMM
                THEN [th EXCEPT !.main = "idle", !.reboot = TRUE]
                ELSE [th EXCEPT !.main = "failed"]
    /\ last' = ThLast("Canopen_init")
    /\ UNCHANGED co /\ ThFrame

(* co_start(): with a sink registered nmt_register and                     *)
(* nmt_relay_event(RESET_COMMUNICATION); CANrx_threadTmr_init, then        *)
(* vTaskResume or xTaskCreate.                                             *)
CoStartTask ==
    /\ th.main = "start"
    /\ \E created \in BOOLEAN :
          LET t == [th EXCEPT !.nmtCallback = (th.nmt_event_queue # 0),
                              !.events = nmt_relay_event(th.nmt_event_queue, @,
                                                         RESET_COMMUNICATION)]
          IN  th' = IF th.timer_rx_handle # NULL
                    THEN [t EXCEPT !.rx = vTaskResume(@), !.main = "idle",
                                   !.window = FALSE]
                    ELSE IF created
                    THEN [t EXCEPT !.rx = "process", !.timer_rx_handle = 1,
                                   !.main = "idle", !.window = FALSE]
                    ELSE [t EXCEPT !.main = "failed"]
    /\ last' = [ThLast("co_start") EXCEPT !.op =
                   IF th.timer_rx_handle # NULL THEN "vTaskResume" ELSE "xTaskCreate"]
    /\ UNCHANGED co /\ ThFrame

(***************************************************************************)
(* Specifications.                                                         *)
(***************************************************************************)
NextFault ==
    \/ Tick
    \/ ErrorInit
    \/ ErrorDisable
    \/ RxMsg
    \/ TxMsg
    \/ RxMsgError

SpecFault == InitFault /\ [][NextFault]_vars

(* The transmit path next to FaultRecovery, at one instant of the clock. *)
NextSend ==
    \/ ModuleInit
    \/ Send
    \/ TxDrain
    \/ RxMsg
    \/ TxMsg
    \/ RxMsgError

SpecSend == InitFault /\ [][NextSend]_vars

NextDispatch ==
    \/ ModuleInit
    \/ RxBufferInit
    \/ RxWait

SpecDispatch == Init /\ [][NextDispatch]_vars

NextStore ==
    \/ SdoStoreParameters
    \/ SdoRestoreDefaultParameters
    \/ SdoSerialNumber

SpecStore == InitFault /\ [][NextStore]_vars

NextTable ==
    \/ OdGet
    \/ OdGetBool
    \/ OdSet
    \/ OdSetBool

SpecTable == InitFault /\ [][NextTable]_vars

NextReset ==
    \/ RxProcess
    \/ RxTest
    \/ RxClear
    \/ RxSuspend
    \/ RxResumed
    \/ RequestReboot
    \/ NmtRegister
    \/ ProcessReset
    \/ DeinitWait
    \/ DeinitDelete
    \/ ReInit
    \/ CoStartTask

SpecReset == InitFault /\ [][NextReset]_vars

(* The scheduler lets every task that can run take its next step; resets    *)
(* and reboot requests come when they come.                                *)
FairReset ==
    /\ WF_vars(RxProcess)
    /\ WF_vars(RxTest)
    /\ WF_vars(RxClear)
    /\ WF_vars(RxSuspend)
    /\ WF_vars(RxResumed)
    /\ WF_vars(DeinitWait)
    /\ WF_vars(DeinitDelete)
    /\ WF_vars(ReInit)
    /\ WF_vars(CoStartTask)

SpecResetFair == InitFault /\ [][NextReset]_vars /\ FairReset

NextNegotiate ==
    \/ InitCall
    \/ LssNidAssignment
    \/ HousekeepingMain
    \/ NegotiationPoll
    \/ CoStart
    \/ LssReceive
    \/ Process

SpecNegotiate == InitNegotiate /\ [][NextNegotiate]_vars

NextSerial ==
    \/ SdoStoreParameters
    \/ SdoRestoreDefaultParameters
    \/ SdoSerialNumber
    \/ ReloadOnReset

SpecSerial == InitFault /\ [][NextSerial]_vars

NextDaisy ==
    \/ StoreCfgEnter
    \/ StoreCfgSave
    \/ StoreCfgRestore
    \/ DaisyEvent

SpecDaisy == InitDaisy /\ [][NextDaisy]_vars

NextLink ==
    \/ Tick
    \/ SockArrive
    \/ SockRead
    \/ ResetIfEnter
    \/ ResetIfLinkDown
    \/ ResetIfRecv
    \/ ResetIfLinkUp

SpecLink == InitFault /\ [][NextLink]_vars

NextLoad ==
    \/ InitPowerOn
    \/ LssStoreConfig

SpecLoad == InitLoad /\ [][NextLoad]_vars

Next == NextFault \/ NextSend \/ NextDispatch \/ NextStore \/ NextNegotiate
           \/ NextReset \/ NextTable \/ NextLoad \/ NextLink \/ NextSerial
           \/ NextDaisy

Spec == Init /\ [][Next]_vars

(***************************************************************************)
(* Properties.                                                             *)
(***************************************************************************)
(* A timestamp in clock ticks. *)
TicksOf(ts) == ts.tv_sec * TicksPerSec + ts.tv_nsec
HasBit(msg, bit) == BitAnd(msg.can_id.low, bit) # 0
IsStdData(f) == ~f.can_id.eff /\ ~f.can_id.rtr /\ ~f.can_id.err
MatchingSlots(id) ==
    {i \in 0 .. rxSize - 1 : WIsZero(WAnd(WXor(id, rxArray[i].ident), rxArray[i].mask))}
Lowest(S) == CHOOSE i \in S : \A j \in S : i <= j
Polled == last.op = "CO_CANrxWait" /\ last.read
ErrHandled == last.op = "CO_CANerror_rxMsgError" /\ ~last.isNull
RxHandled == last.op = "CO_CANerror_rxMsg" /\ ~last.isNull
TxAsked == last.op = "CO_CANerror_txMsg" /\ ~last.isNull

\* C1: a polled standard data frame reaches the handler of the lowest-index
\* descriptor whose (id XOR ident) AND mask is zero, and no other handler.
C1_FirstMatchOnly ==
    (Polled /\ IsStdData(last.frame)) =>
        LET M == MatchingSlots(last.frame.can_id)
        IN  IF M = {} THEN last.invoked = <<>>
            ELSE last.invoked =
                    IF rxArray[Lowest(M)].pFunct # NULL THEN <<Lowest(M)>> ELSE <<>>

C1_Witness ==
    /\ Polled
    /\ IsStdData(last.frame)
    /\ \E i, j \in MatchingSlots(last.frame.can_id) :
          /\ i < j
          /\ rxArray[i].pFunct # NULL
          /\ rxArray[j].pFunct # NULL
          /\ last.invoked = <<i>>

\* C2: a bus-off error frame handled while the interface is Active moves it
\* to ListenOnly in that call: listenOnly is set, the timestamp is the time of
\* the call, the interface was reset once and LISTEN_ONLY is returned.
C2_BusoffToListenOnly ==
    (ErrHandled /\ HasBit(last.msg, CAN_ERR_BUSOFF) /\ ~last.pre.listenOnly) =>
        /\ eh.listenOnly
        /\ eh.timestamp = clock_gettime(now)
        /\ last.resets = 1
        /\ last.res = CO_INTERFACE_LISTEN_ONLY

C2_Witness ==
    /\ ErrHandled
    /\ HasBit(last.msg, CAN_ERR_BUSOFF)
    /\ ~last.pre.listenOnly
    /\ eh.listenOnly
    /\ eh.timestamp # ZeroTime

\* C3: a received frame returns a ListenOnly interface to Active at once,
\* whatever time has passed and whatever the no-ACK counter holds, and changes
\* nothing when the interface is already Active.
C3_RxClearsListenOnly ==
    RxHandled =>
        /\ ~eh.listenOnly
        /\ eh.noackCounter = last.pre.noackCounter
        /\ (last.pre.listenOnly => eh.timestamp = ZeroTime)
        /\ (~last.pre.listenOnly => eh = last.pre)

C3_Witness ==
    /\ RxHandled
    /\ last.pre.listenOnly
    /\ last.pre.noackCounter > 0
    /\ now > TicksOf(last.pre.timestamp)
    /\ ~eh.listenOnly

\* C4: in a run of no-ACK error frames that began with the counter at zero,
\* the first 10 frames cause no reset and leave the counter at the run length;
\* the 11th causes exactly one reset, enters ListenOnly and zeroes the counter,
\* after which the count starts again.
C4_EleventhNoackResets ==
    (ErrHandled /\ IsNoackFrame(last.msg) /\ run >= 1) =>
        IF run <= 10
        THEN /\ last.resets = 0
             /\ last.res = CO_INTERFACE_ACTIVE
             /\ eh.noackCounter = run
             /\ eh.listenOnly = last.pre.listenOnly
        ELSE /\ run = 11
             /\ last.resets = 1
             /\ last.res = CO_INTERFACE_LISTEN_ONLY
             /\ eh.noackCounter = 0
             /\ eh.listenOnly

C4_Witness ==
    /\ ErrHandled
    /\ IsNoackFrame(last.msg)
    /\ run = 11
    /\ last.resets = 1
    /\ eh.listenOnly

\* C5: after a received data frame, and after any error frame that does not
\* carry the ACK error (a bus-off frame included), the no-ACK counter is 0.
C5_NonNoackFrameClearsCounter ==
    /\ RxHandled => eh.noackCounter = 0
    /\ (ErrHandled /\ ~HasBit(last.msg, CAN_ERR_ACK)) => eh.noackCounter = 0

\* C6 as stated: asked in ListenOnly, the send gate answers LISTEN_ONLY while
\* less than 5 seconds have passed since the timestamp, and ACTIVE (leaving
\* ListenOnly) once 5 seconds have passed.
C6_DwellFiveSeconds ==
    (TxAsked /\ last.pre.listenOnly) =>
        IF now - TicksOf(last.pre.timestamp) < DwellSeconds * TicksPerSec
        THEN last.res = CO_INTERFACE_LISTEN_ONLY /\ eh.listenOnly
        ELSE last.res = CO_INTERFACE_ACTIVE /\ ~eh.listenOnly

\* C6 amended: asked in ListenOnly, the send gate answers LISTEN_ONLY (and
\* changes nothing) as long as the clock's seconds count is at most the
\* timestamp's seconds plus 5, which covers every call made less than 5
\* seconds after the transition; it answers ACTIVE and leaves ListenOnly when
\* the seconds count exceeds the timestamp's by more than 5, which is certain
\* once 6 seconds have passed.
C6_DwellWholeSeconds ==
    (TxAsked /\ last.pre.listenOnly) =>
        LET elapsed == now - TicksOf(last.pre.timestamp)
            late == clock_gettime(now).tv_sec > last.pre.timestamp.tv_sec + DwellSeconds
        IN  /\ late => (last.res = CO_INTERFACE_ACTIVE /\ ~eh.listenOnly)
            /\ ~late => (last.res = CO_INTERFACE_LISTEN_ONLY /\ eh = last.pre)
            /\ elapsed < DwellSeconds * TicksPerSec => ~late
            /\ elapsed >= (DwellSeconds + 1) * TicksPerSec => late

C6_Witness ==
    /\ TxAsked
    /\ last.pre.listenOnly
    /\ last.res = CO_INTERFACE_ACTIVE
    /\ ~eh.listenOnly

\* C7: an error frame read by the poll is handed to FaultRecovery: a bus-off
\* frame leaves the interface in ListenOnly, a no-ACK frame leaves the no-ACK
\* counter incremented.
C7_PollHandsErrorFrameOver ==
    (Polled /\ last.frame.can_id.err) =>
        /\ HasBit(last.frame, CAN_ERR_BUSOFF) => eh.listenOnly
        /\ IsNoackFrame(last.frame) => eh.noackCounter > 0

\* C8: a send requested in ListenOnly before the dwell time has elapsed
\* returns CO_ERROR_TX_BUSY and hands nothing to the transport.
C8_SendRefusedInListenOnly ==
    (/\ last.op = "CO_CANsend"
     /\ last.valid
     /\ last.wasListenOnly
     /\ ~DwellElapsed(eh.timestamp, now)) =>
        (last.res = CO_ERROR_TX_BUSY /\ ~last.written)

\* C9: a polled frame with an extended identifier invokes no receive handler.
C9_ExtendedFrameDropped ==
    (Polled /\ last.frame.can_id.eff) => last.invoked = <<>>

\* C10: no FaultRecovery state is terminal: in every reachable state a
\* received frame leaves the interface Active, so does a send attempt once the
\* dwell time has elapsed, and no call on a handler reports bus-off.
C10_ActiveAlwaysRecoverable ==
    /\ ~CO_CANerror_rxMsg(FALSE, eh).listenOnly
    /\ DwellElapsed(eh.timestamp, now) => ~CO_CANerror_txMsg(FALSE, eh, now).h.listenOnly
    /\ (ErrHandled \/ TxAsked) => last.res # CO_INTERFACE_BUS_OFF
    /\ ~CO_CANerror_txMsg(FALSE, eh, now + (DwellSeconds + 1) * TicksPerSec).h.listenOnly

C10_Witness ==
    /\ RxHandled
    /\ last.pre.listenOnly
    /\ DwellElapsed(last.pre.timestamp, now)
    /\ ~eh.listenOnly

\* C11: an error frame of the controller class that carries neither the
\* bus-off nor the ACK error causes no transition: listenOnly and the timestamp
\* are as before the call, no interface reset is commanded and the call
\* returns CO_INTERFACE_ACTIVE.
C11_ControllerFrameObservational ==
    (/\ ErrHandled
     /\ HasBit(last.msg, CAN_ERR_CRTL)
     /\ ~HasBit(last.msg, CAN_ERR_BUSOFF)
     /\ ~HasBit(last.msg, CAN_ERR_ACK)) =>
        /\ eh.listenOnly = last.pre.listenOnly
        /\ eh.timestamp = last.pre.timestamp
        /\ last.resets = 0
        /\ last.res = CO_INTERFACE_ACTIVE

C11_Witness ==
    /\ ErrHandled
    /\ HasBit(last.msg, CAN_ERR_CRTL)
    /\ ~HasBit(last.msg, CAN_ERR_BUSOFF)
    /\ ~HasBit(last.msg, CAN_ERR_ACK)
    /\ last.pre.listenOnly
    /\ last.pre.timestamp # ZeroTime
    /\ eh.listenOnly

\* C12: a poll that reads an error frame (bus-off, no-ACK, controller or any
\* other class) returns CO_ERROR_NO and invokes no receive handler.
C12_ErrorFrameNotSurfaced ==
    (Polled /\ last.frame.can_id.err) =>
        /\ last.res = CO_ERROR_NO
        /\ last.invoked = <<>>

C12_Witness ==
    /\ Polled
    /\ last.frame.can_id.err
    /\ \E i \in MatchingSlots(WAnd(last.frame.can_id, CAN_SFF_MASK)) :
          rxArray[i].pFunct # NULL
    /\ last.res = CO_ERROR_NO
    /\ last.invoked = <<>>

StoreWritten == last.op = "store_parameters_callback" /\ ~last.reading
RestoreWritten == last.op = "restore_default_parameters_callback" /\ ~last.reading
SerialWritten == last.op = "serial_number_callback" /\ ~last.reading

\* C13: a write to 0x1010 that presents a value other than 0x65766173 calls
\* storage.save for no group, leaves the non-volatile memory and the object
\* dictionary as they were, leaves the write target holding the previously
\* stored value and returns CO_SDO_AB_DATA_TRANSF.
C13_WrongSignatureRejected ==
    (StoreWritten /\ last.written # SaveSignature) =>
        /\ last.saves = <<>>
        /\ storage = last.preStorage
        /\ od = last.pre
        /\ last.data = last.stored
        /\ last.abort = CO_SDO_AB_DATA_TRANSF

C13_Witness ==
    /\ StoreWritten
    /\ last.subIndex = 3
    /\ last.written = SaveSignature + 1
    /\ last.written # last.stored
    /\ last.data = last.stored
    /\ last.abort = CO_SDO_AB_DATA_TRANSF

\* C14: a write to 0x1010 sub 2 (communication) or sub 4 (runtime) is rejected
\* with CO_SDO_AB_DATA_TRANSF for every value written, the signature included:
\* storage.save is called for no group, nothing is stored and the write target
\* holds the previously stored value.
C14_CommAndRuntimeNeverStored ==
    (StoreWritten /\ last.subIndex \in {2, 4}) =>
        /\ last.abort = CO_SDO_AB_DATA_TRANSF
        /\ last.saves = <<>>
        /\ storage = last.preStorage
        /\ od = last.pre
        /\ last.data = last.stored

C14_Witness ==
    /\ StoreWritten
    /\ last.subIndex = 2
    /\ last.written = SaveSignature
    /\ last.abort = CO_SDO_AB_DATA_TRANSF
    /\ last.data = last.stored

\* C15: at most one store-serial command (0x1010 sub 5) ever succeeds; once
\* OD_serialNumber.valid is true, every write to the serial field (0x5000
\* sub 2) and every store-serial command is rejected whatever value it carries,
\* nothing is saved, and OD_serialNumber and OD_identity.serialNumber stay as
\* they were, under every access to 0x1010, 0x1011 and 0x5000.
C15_SerialWriteOnce ==
    /\ hist.serialStores <= 1
    /\ (/\ (StoreWritten /\ last.subIndex = 5) \/ (SerialWritten /\ last.subIndex = 2)
        /\ last.pre.serialNumber.valid) =>
            /\ last.abort # CO_SDO_AB_NONE
            /\ last.saves = <<>>
            /\ storage = last.preStorage
    /\ (/\ StoreWritten \/ SerialWritten \/ RestoreWritten
        /\ last.pre.serialNumber.valid) =>
            /\ od.serialNumber = last.pre.serialNumber
            /\ od.identity = last.pre.identity

C15_Witness ==
    /\ hist.serialStores = 1
    /\ SerialWritten
    /\ last.subIndex = 2
    /\ last.pre.serialNumber.valid
    /\ last.written # last.pre.serialNumber.serial
    /\ last.abort = CO_SDO_AB_READONLY
    /\ SERIAL \in storage.saved
    /\ od.serialNumber = storage.serial

\* C16: a write to 0x1011, accepted or rejected, leaves every value of the
\* object dictionary as it was (the entry written included) and the stored
\* groups untouched; the write target holds the previously stored value; the
\* only effect is that an accepted command schedules the restoration of the
\* application parameter group (PARAMS) for the next load.
C16_RestoreLeavesLiveValues ==
    RestoreWritten =>
        /\ od = last.pre
        /\ last.data = last.stored
        /\ last.saves = <<>>
        /\ storage.saved = last.preStorage.saved
        /\ storage.serial = last.preStorage.serial
        /\ storage.nid = last.preStorage.nid
        /\ storage.restore =
              IF last.abort = CO_SDO_AB_NONE
              THEN last.preStorage.restore \cup {PARAMS}
              ELSE last.preStorage.restore

C16_Witness ==
    /\ RestoreWritten
    /\ last.abort = CO_SDO_AB_NONE
    /\ last.written = LoadSignature
    /\ PARAMS \notin last.preStorage.restore
    /\ PARAMS \in storage.restore
    /\ od = last.pre

LoopPcs == {"lss_process", "housekeeping", "poll"}
InitPcs == LoopPcs \cup {"co_start"}
NegOps == {"Canopen_init", "lss_nid_assignment", "housekeeping_main", "CO_CANrxWait",
           "co_start", "lss_receive", "process"}
EnteredInit ==
    \/ last.op = "Canopen_init"
    \/ (last.op = "process" /\ last.reset = CO_RESET_COMM)
Assignable == 1 .. 127

\* C17 as stated: in an init called with a nonzero nid, the pending node id is
\* that nid, OD_CANNodeID is not read by lss_check, and neither
\* housekeeping_main nor the poll of the negotiation loop is executed.
C17_ExplicitAddressSkipsNegotiation ==
    (co.nid # 0 /\ co.pc \in InitPcs \cup {"running"}) =>
        /\ co.pending_nid = co.nid
        /\ hist.persisted = -1
        /\ hist.housekeeping = 0
        /\ hist.polls = 0
        /\ co.pc \notin {"housekeeping", "poll"}

\* C17 amended: in an init called with a nid in [1,127], the pending node id
\* is that nid, OD_CANNodeID is not read by lss_check, neither
\* housekeeping_main nor the poll of the negotiation loop is executed, and the
\* node runs with that nid.
C17_AssignableExplicitAddressSkipsNegotiation ==
    (co.nid \in Assignable /\ co.pc \in InitPcs \cup {"running"}) =>
        /\ co.pending_nid = co.nid
        /\ hist.persisted = -1
        /\ hist.housekeeping = 0
        /\ hist.polls = 0
        /\ co.pc \notin {"housekeeping", "poll"}
        /\ co.pc = "running" => co.active_nid = co.nid

C17_Witness ==
    /\ co.nid = 5
    /\ od.CANNodeID = 127
    /\ co.pc = "running"
    /\ co.active_nid = 5
    /\ hist.housekeeping = 0
    /\ hist.polls = 0

\* C18: in an init called with nid 0 in which lss_check reads a node id p in
\* [1,127] from OD_CANNodeID, the pending node id is p, neither
\* housekeeping_main nor the poll of the negotiation loop is executed, and the
\* node runs with address p.
C18_PersistedAddressResolvesAtOnce ==
    (co.nid = 0 /\ hist.persisted \in Assignable /\ co.pc \in InitPcs \cup {"running"}) =>
        /\ co.pending_nid = hist.persisted
        /\ hist.housekeeping = 0
        /\ hist.polls = 0
        /\ co.pc \notin {"housekeeping", "poll"}
        /\ co.pc = "running" => co.active_nid = hist.persisted

C18_Witness ==
    /\ co.nid = 0
    /\ hist.persisted = 5
    /\ last.op = "co_start"
    /\ co.pc = "running"
    /\ co.active_nid = 5
    /\ hist.housekeeping = 0
    /\ hist.polls = 0

\* C19: when init is entered with nid 0 and the node id read from OD_CANNodeID
\* is not in [1,127], the pending node id and *p_active_nid are set to
\* CO_LSS_NODE_ID_ASSIGNMENT and the negotiation loop is entered; the loop is
\* left only from its test, only towards co_start, and only with a pending
\* node id other than CO_LSS_NODE_ID_ASSIGNMENT, however many iterations ran.
C19_UnassignedLoopsUntilAssigned ==
    /\ (/\ EnteredInit
        /\ co.nid = 0
        /\ hist.persisted # -1
        /\ hist.persisted \notin Assignable) =>
            /\ co.pending_nid = CO_LSS_NODE_ID_ASSIGNMENT
            /\ co.active_nid = CO_LSS_NODE_ID_ASSIGNMENT
            /\ co.pc \in {"lss_process", "failed"}
    /\ (co.pc \in InitPcs /\ co.pending_nid = CO_LSS_NODE_ID_ASSIGNMENT) =>
            co.pc \in LoopPcs
    /\ (last.op \in NegOps /\ last.prePc \in LoopPcs /\ co.pc \notin LoopPcs) =>
            /\ last.op = "lss_nid_assignment"
            /\ co.pc = "co_start"
            /\ co.pending_nid # CO_LSS_NODE_ID_ASSIGNMENT
            /\ co.lss.state = CO_LSS_STATE_WAITING

C19_Witness ==
    /\ co.nid = 0
    /\ hist.persisted = 128
    /\ last.op = "lss_nid_assignment"
    /\ co.pc = "co_start"
    /\ hist.housekeeping = MaxLoops
    /\ hist.polls = MaxLoops
    /\ co.pending_nid = 7
    /\ co.active_nid = CO_LSS_NODE_ID_ASSIGNMENT

\* C20: in every state *p_active_nid is a node id in [1,127] or
\* CO_LSS_NODE_ID_ASSIGNMENT.
C20_ActiveAddressInRange ==
    co.active_nid \in Assignable \cup {CO_LSS_NODE_ID_ASSIGNMENT}

(***************************************************************************)
\* C22: a registration with a module, an object and a handler succeeds at
\* every index below rxSize and enters the handler there; at an index at or
\* beyond rxSize it returns CO_ERROR_ILLEGAL_ARGUMENT and no table entry
\* changes.
C22_RegistrationWithinCapacity ==
    (last.op = "CO_CANrxBufferInit" /\ last.valid) =>
        IF last.index < rxSize
        THEN /\ last.res = CO_ERROR_NO
             /\ rxArray[last.index].pFunct # NULL
        ELSE /\ last.res = CO_ERROR_ILLEGAL_ARGUMENT
             /\ ~last.changed

C22_Witness ==
    /\ last.op = "CO_CANrxBufferInit"
    /\ last.valid
    /\ last.index = rxSize
    /\ last.res = CO_ERROR_ILLEGAL_ARGUMENT
    /\ \A i \in 0 .. rxSize - 1 : rxArray[i].pFunct # NULL

(* The 11-bit identifier of a frame equals that of a descriptor under its mask. *)
SffMatch(f, buffer) ==
    BitAnd(BitXor(BitAnd(f.can_id.low, SffBits), BitAnd(buffer.ident.low, SffBits)),
           BitAnd(buffer.mask.low, SffBits)) = 0
IsRtrFrame(f) == f.can_id.rtr /\ ~f.can_id.eff /\ ~f.can_id.err

\* C23: a polled RTR frame whose 11-bit identifier matches, under the mask,
\* the descriptor registered with rtr = true in the first slot of the table
\* has that descriptor's handler called.
C23_RtrDescriptorAcceptsRtrFrame ==
    (/\ Polled
     /\ IsRtrFrame(last.frame)
     /\ rxArray[0].pFunct # NULL
     /\ rxArray[0].ident.rtr
     /\ SffMatch(last.frame, rxArray[0]))
        => last.invoked = <<0>>

(* A slot as CO_CANrxBufferInit(module, i, ident, 0x7FF, false, object, handler) leaves it. *)
Registered(ident) ==
    [ident |-> W(ident, FALSE, FALSE, FALSE), mask |-> W(SffBits, FALSE, TRUE, TRUE),
     object |-> 1, pFunct |-> 1]
DescriptorA == Registered(385)
DescriptorB == Registered(641)

\* C24: a polled standard data frame that matches no registered descriptor
\* has no handler called and the poll returns CO_ERROR_NO; with A(0x181,0x7FF)
\* and B(0x281,0x7FF) in slots 0 and 1, frame 0x181 calls A once and B never,
\* frame 0x281 calls B only, and frame 0x301 calls neither.
C24_UnmatchedFrameDropped ==
    (Polled /\ IsStdData(last.frame)) =>
        /\ last.res = CO_ERROR_NO
        /\ (\A i \in MatchingSlots(last.frame.can_id) : rxArray[i].pFunct = NULL)
               => last.invoked = <<>>
        /\ (rxArray[0] = DescriptorA /\ rxArray[1] = DescriptorB) =>
               /\ last.frame.can_id.low = 385 => last.invoked = <<0>>
               /\ last.frame.can_id.low = 641 => last.invoked = <<1>>
               /\ last.frame.can_id.low = 769 => last.invoked = <<>>

C24_Witness ==
    /\ Polled
    /\ IsStdData(last.frame)
    /\ rxArray[0] = DescriptorA
    /\ rxArray[1] = DescriptorB
    /\ last.frame.can_id.low = 769
    /\ last.invoked = <<>>
    /\ last.res = CO_ERROR_NO

\* C25: a send that finds the transport queue full returns
\* CO_ERROR_TX_OVERFLOW and queues nothing; no transmit descriptor is ever
\* marked bufferFull, and every frame inside the transport was put there by
\* a send that returned CO_ERROR_NO.
C25_OverflowDropsFrame ==
    /\ \A i \in TxSlots : ~txArray[i].bufferFull
    /\ txCount = hist.queued
    /\ (last.op = "CO_CANsend" /\ last.valid /\ last.q = TxQueueSize) =>
          /\ last.res = CO_ERROR_TX_OVERFLOW
          /\ ~last.written
          /\ txCount = last.q

C25_Witness ==
    /\ last.op = "CO_CANsend"
    /\ last.valid
    /\ last.q = TxQueueSize
    /\ last.res = CO_ERROR_TX_OVERFLOW
    /\ hist.queued = TxQueueSize

(* The accessor of the last call does not fit the entry it named: the entry *)
(* is absent or its stored size is not the size of the accessor's type.    *)
OdOps == {"od_get", "od_get_bool", "od_set", "od_set_bool"}
OdMisfit ==
    \/ <<last.index, last.subindex>> \notin DOMAIN last.pre
    \/ last.pre[<<last.index, last.subindex>>].length # last.size

C21_NoPollWhileTableTornDown ==
    th.window => th.rx # "process"

C21_Witness ==
    /\ last.op = "vTaskResume"
    /\ last.preRx = "suspended"
    /\ th.reset = CO_RESET_COMM
    /\ th.rx = "resumed"
    /\ ~th.window

\* C28: whenever co_start() has issued vTaskResume for the polling task, the
\* polling task is eventually inside CANrx_threadTmr_process again.
C28_ResumeNotLost ==
    (last.op = "vTaskResume") ~> (th.rx = "process")

\* C29: whenever the main task waits in deinit() for timer_rx_suspend to
\* become false, the wait eventually ends.
C29_DeinitTerminates ==
    (th.main = "deinit_wait") ~> (th.main # "deinit_wait")


(***************************************************************************)
(* C27: a failed load is never fatal. od_load_start attempts all six       *)
(* groups whatever the earlier outcomes: after init() at power-on every    *)
(* group whose load succeeded holds what the non-volatile memory holds,    *)
(* every group whose load failed holds its compiled-in default, and init   *)
(* goes on to address negotiation whenever co_init succeeded.              *)
(***************************************************************************)
GroupImage(odv, g) ==
    IF g = COMMUNICATION THEN odv.CANNodeID
    ELSE IF g = SERIAL THEN odv.serialNumber
    ELSE odv.image[g]

StoredGroup(st, g) ==
    IF g = COMMUNICATION THEN st.nid
    ELSE IF g = SERIAL THEN st.serial
    ELSE st.image[g]

C30_ActiveNidReentered ==
    last.op = "store_lss_config_callback" => od.CANNodeID = last.pre.CANNodeID

(***************************************************************************)
(* C31: the validity flag becomes true only when the serial group has been *)
(* saved: a store-serial command with the correct signature, issued while  *)
(* the flag is false, whose save fails returns CO_SDO_AB_HW and leaves the *)
(* flag false.                                                             *)
(***************************************************************************)
C31_FailedSerialStoreLeavesFlagFalse ==
    (/\ StoreWritten
     /\ last.subIndex = 5
     /\ last.written = SaveSignature
     /\ last.pre.serialNumber.valid = FALSE
     /\ last.saves = <<SERIAL>>
     /\ storage = last.preStorage) =>
        /\ last.abort = CO_SDO_AB_HW
        /\ od.serialNumber.valid = FALSE

(***************************************************************************)
(* C32: a polled standard data frame that matches a registered descriptor  *)
(* is delivered to the handler of the first such descriptor, whatever the  *)
(* slots at lower indices that were not registered since the last          *)
(* CO_CANmodule_init hold: an unregistered slot (no handler) never         *)
(* consumes the frame.                                                     *)
(***************************************************************************)
RegisteredMatches(id) == {i \in MatchingSlots(id) : rxArray[i].pFunct # NULL}

C32_UnregisteredSlotNeverConsumes ==
    (Polled /\ IsStdData(last.frame) /\ RegisteredMatches(last.frame.can_id) # {}) =>
        last.invoked = <<Lowest(RegisteredMatches(last.frame.can_id))>>

(***************************************************************************)
(* C33: a bus-off error frame handled while the interface is already in    *)
(* ListenOnly repeats the cycle: the interface is reset again, the         *)
(* timestamp becomes the time of this frame, the interface stays in        *)
(* ListenOnly and LISTEN_ONLY is returned; as the property holds for every *)
(* such frame, it holds for any number of consecutive ones.                *)
(***************************************************************************)
C33_BusoffInListenOnlyRepeats ==
    (ErrHandled /\ HasBit(last.msg, CAN_ERR_BUSOFF) /\ last.pre.listenOnly) =>
        /\ last.resets = 1
        /\ eh.timestamp = clock_gettime(now)
        /\ eh.listenOnly
        /\ last.res = CO_INTERFACE_LISTEN_ONLY

C33_Witness ==
    /\ ErrHandled
    /\ HasBit(last.msg, CAN_ERR_BUSOFF)
    /\ last.pre.listenOnly
    /\ last.pre.timestamp # ZeroTime
    /\ eh.timestamp.tv_sec > last.pre.timestamp.tv_sec
    /\ eh.listenOnly
    /\ last.resets = 1

SerialOps == {"store_parameters_callback", "restore_default_parameters_callback",
              "serial_number_callback", "reload_on_reset"}

C34_ValidFlagNeverCleared ==
    (last.op \in SerialOps /\ last.pre.serialNumber.valid) => od.serialNumber.valid

C34_Witness ==
    /\ last.op = "reload_on_reset"
    /\ last.pre.serialNumber.valid
    /\ ~last.loaded
    /\ SERIAL \in storage.saved
    /\ od.serialNumber.valid

(***************************************************************************)
(* C35: while the validity flag is true, OD_serialNumber.serial keeps its  *)
(* value and OD_identity.serialNumber equals it modulo 100000000 after     *)
(* every completed operation, a communication reset in which the load of   *)
(* the serial group fails included.                                        *)
(***************************************************************************)
C35_ValidSerialKept ==
    (last.op \in SerialOps /\ last.pre.serialNumber.valid /\ od.serialNumber.valid) =>
        /\ od.serialNumber.serial = last.pre.serialNumber.serial
        /\ od.identity.serialNumber = od.serialNumber.serial % SerialMod

(***************************************************************************)
(* C36: an iteration of the negotiation loop that does not exit runs the   *)
(* claim step, then the housekeeping hook, then one poll, and returns to   *)
(* the claim step: at every claim step and after it as many hooks as polls *)
(* have run, at the poll exactly one hook more, and each step of the loop  *)
(* is followed by the next one in this order.                              *)
(***************************************************************************)
C36_LoopOrder ==
    /\ co.pc \in {"lss_process", "housekeeping"} => hist.housekeeping = hist.polls
    /\ co.pc = "poll" => hist.housekeeping = Counted(hist.polls)
    /\ (last.op \in NegOps /\ last.prePc = "lss_process" /\ co.pc \in LoopPcs) =>
          last.op = "lss_nid_assignment" /\ co.pc = "housekeeping"
    /\ (last.op \in NegOps /\ last.prePc = "housekeeping") =>
          last.op = "housekeeping_main" /\ co.pc = "poll"
    /\ (last.op \in NegOps /\ last.prePc = "poll") =>
          last.op = "CO_CANrxWait" /\ co.pc = "lss_process"

C36_Witness ==
    /\ last.op = "lss_nid_assignment"
    /\ co.pc = "housekeeping"
    /\ co.pending_nid = CO_LSS_NODE_ID_ASSIGNMENT
    /\ hist.housekeeping = MaxLoops
    /\ hist.polls = MaxLoops

(***************************************************************************)
(* C37: the node id sent with a daisy-chain shift-in event is the node's   *)
(* active node id, in every interleaving of daisychain_event_callback with *)
(* store_lss_config_callback and after store_lss_config_callback has       *)
(* returned; the event never carries a node id that was only stored for    *)
(* the next start.                                                         *)
(***************************************************************************)
C37_EventCarriesActiveNid ==
    last.op = "daisychain_event_callback" => last.nid = dc.active

(***************************************************************************)
(* C38: on a communication reset with an NMT sink registered, deinit sends *)
(* INITIALIZING while the stack still exists, co_start sends               *)
(* RESET_COMMUNICATION after the stack is rebuilt and the NMT callback set *)
(* again, in this order and once each: when the re-initialisation has      *)
(* succeeded the events deinit and co_start have sent since the reset was  *)
(* requested are exactly INITIALIZING, RESET_COMMUNICATION; before that    *)
(* they are a prefix of it.                                                *)
(***************************************************************************)
ResetEvents == <<INITIALIZING, RESET_COMMUNICATION>>

C38_InitializingBeforeResetCommunication ==
    (th.reset = CO_RESET_COMM /\ th.nmt_event_queue # 0) =>
        /\ th.main = "delete" => th.events = <<>>
        /\ th.main \in {"init", "start"} =>
              th.events = <<INITIALIZING>> /\ ~th.nmtCallback
        /\ (last.op = "vTaskResume" /\ th.main = "idle") =>
              th.events = ResetEvents /\ th.nmtCallback
        /\ \E n \in 0 .. 2 : th.events = SubSeq(ResetEvents, 1, n)

C38_Witness ==
    /\ th.reset = CO_RESET_COMM
    /\ th.nmt_event_queue # 0
    /\ last.op = "vTaskResume"
    /\ th.main = "idle"
    /\ th.resets = 2
    /\ th.events = ResetEvents

(***************************************************************************)
(* C39: one call of CO_CANrxWait takes at most one frame from the          *)
(* transport and calls at most one receive handler, and only for a frame   *)
(* it has read; when can_poll times out the call returns CO_ERROR_TIMEOUT  *)
(* with no frame read and no handler called; when can_poll or can_read     *)
(* fails it returns an error with no handler called.                       *)
(***************************************************************************)
RxWaitTimedOut ==
    last.op = "CO_CANrxWait" /\ ~last.moduleNull /\ last.poll = CAN_ERR_TIMEOUT

RxWaitTransportError ==
    /\ last.op = "CO_CANrxWait"
    /\ ~last.moduleNull
    /\ \/ last.poll \notin {CAN_OK, CAN_ERR_TIMEOUT}
       \/ last.poll = CAN_OK /\ last.canRead # CAN_OK

C39_OneFrameOneHandlerPerPoll ==
    /\ last.op = "CO_CANrxWait" =>
          /\ Len(last.invoked) <= 1
          /\ last.invoked # <<>> => last.read
          /\ last.read => last.poll = CAN_OK /\ last.canRead = CAN_OK
    /\ RxWaitTimedOut =>
          last.res = CO_ERROR_TIMEOUT /\ ~last.read /\ last.invoked = <<>>
    /\ RxWaitTransportError =>
          last.res \notin {CO_ERROR_NO, CO_ERROR_TIMEOUT} /\ last.invoked = <<>>

C39_Witness ==
    /\ RxWaitTimedOut
    /\ last.res = CO_ERROR_TIMEOUT
    /\ \E i, j \in 0 .. rxSize - 1 :
          /\ i # j
          /\ rxArray[i].pFunct # NULL
          /\ rxArray[j].pFunct # NULL
          /\ rxArray[i].ident = rxArray[j].ident

============================================================================
